---- MODULE Spec2Model ----
(***************************************************************************)
(* Execution and remediation engine of the `assist` command                *)
(* (arvil/src/commands/assist.js, specification Spec) and of its earlier   *)
(* variant (specification LegacySpec).                                     *)
(*                                                                         *)
(* Text is modelled as sequences of tokens: a line is a sequence of        *)
(* tokens, a code block is a sequence of lines.  A token is the unit the   *)
(* code's `includes` tests and regular expressions look at.  A filename    *)
(* is a sequence of path segments, "/" in front when absolute.             *)
(* The async call structure (autoProcessCodeBlocks -> executeCommand ->    *)
(* attemptErrorResolution -> handlers -> executeCommand ...) is an         *)
(* explicit stack of frames, top of the stack first.                       *)
(***************************************************************************)
EXTENDS Integers, Sequences, FiniteSets, TLC

\* ------------------------------------------------------------------ bounds
\* Number of faults of one session: shell commands that report an error
\* (non-zero exit, or exit 0 with an error token on stderr) and filesystem
\* operations that fail.
MaxFailures == 2
\* Number of filesystem operations among them.
MaxFsFaults == 1
\* Size of the texts a function applied on its own is given: lines of a
\* text and tokens of a line.
MaxTextLines == 2
MaxLineTokens == 2
\* Number of pieces a markdown text given to extractCodeBlocks is made of.
MaxSegments == 5

\* ------------------------------------------------------------ sequences
RECURSIVE SeqToSet(_)
SeqToSet(s) == IF s = <<>> THEN {} ELSE {Head(s)} \cup SeqToSet(Tail(s))

RECURSIVE FlatTokens(_)
\* all tokens of a sequence of lines
FlatTokens(code) ==
    IF code = <<>> THEN {} ELSE SeqToSet(Head(code)) \cup FlatTokens(Tail(code))

Last(s) == s[Len(s)]
IsPrefix(p, s) == Len(p) <= Len(s) /\ SubSeq(s, 1, Len(p)) = p

\* ----------------------------------------------------------- placeholders
Kinds == {"private_key", "api_key", "wallet_address", "rpc_endpoint"}

\* The tokens the two patterns of each kind match (bracketed, quoted).
BracketTokens(kind) ==
    CASE kind = "private_key"    -> {"[YourPrivateKey]", "[YourPrivateKeyArray]"}
      [] kind = "api_key"        -> {"[YourAPIKey]"}
      [] kind = "wallet_address" -> {"[YourWalletAddress]"}
      [] kind = "rpc_endpoint"   -> {"[YourRPCEndpoint]"}

QuotedTokens(kind) ==
    CASE kind = "private_key"    -> {"'your_private_key_here'", "'your_actual_private_key_here'"}
      [] kind = "api_key"        -> {"'your_api_key'", "'your_api_key_here'"}
      [] kind = "wallet_address" -> {"'your_wallet_address'", "'your_wallet_address_here'"}
      [] kind = "rpc_endpoint"   -> {"'your_rpc_endpoint'", "'your_rpc_endpoint_here'"}

PlaceholderTokens(kind) == BracketTokens(kind) \cup QuotedTokens(kind)
AllPlaceholderTokens == UNION {PlaceholderTokens(k) : k \in Kinds}

\* The `KEY=` token of the persisted variable of each kind.
EnvVar(kind) ==
    CASE kind = "private_key"    -> "PRIVATE_KEY="
      [] kind = "api_key"        -> "API_KEY="
      [] kind = "wallet_address" -> "WALLET_ADDRESS="
      [] kind = "rpc_endpoint"   -> "RPC_ENDPOINT="

\* patterns[] of detectAndPromptForPlaceholders, in source order
patterns ==
    << [type |-> "private_key",    tokens |-> BracketTokens("private_key")],
       [type |-> "private_key",    tokens |-> QuotedTokens("private_key")],
       [type |-> "api_key",        tokens |-> BracketTokens("api_key")],
       [type |-> "api_key",        tokens |-> QuotedTokens("api_key")],
       [type |-> "wallet_address", tokens |-> BracketTokens("wallet_address")],
       [type |-> "wallet_address", tokens |-> QuotedTokens("wallet_address")],
       [type |-> "rpc_endpoint",   tokens |-> BracketTokens("rpc_endpoint")],
       [type |-> "rpc_endpoint",   tokens |-> QuotedTokens("rpc_endpoint")] >>

\* "" stands for `undefined`: no value for the kind
NoValue == ""
NoBindings == [k \in Kinds |-> NoValue]

\* `"${value}"`: the quoted form the second pattern is replaced with
Quote(v) == "\"" \o v \o "\""

\* One kind's three replacements applied to one line: bracket tokens (g),
\* quoted tokens (g), and the rest of the line from `KEY=` on when
\* rewriteVar is set (the caller sets it for the first such line only,
\* the regex has the m flag and no g flag).
ReplaceInLine(line, kind, v, rewriteVar) ==
    LET sub == [k \in DOMAIN line |->
                   IF line[k] \in BracketTokens(kind) THEN v
                   ELSE IF line[k] \in QuotedTokens(kind) THEN Quote(v)
                   ELSE line[k]]
        hits == {k \in DOMAIN sub : sub[k] = EnvVar(kind)}
    IN  IF rewriteVar /\ hits # {}
        THEN LET k == CHOOSE h \in hits : \A g \in hits : h <= g
             IN  SubSeq(sub, 1, k) \o <<v>>
        ELSE sub

\* One kind's replacements applied to a code block (a sequence of lines).
ReplaceKind(code, kind, v) ==
    LET sub == [n \in DOMAIN code |-> ReplaceInLine(code[n], kind, v, FALSE)]
        hitLines == {n \in DOMAIN sub : EnvVar(kind) \in SeqToSet(sub[n])}
    IN  IF v = NoValue THEN code
        ELSE [n \in DOMAIN code |->
                ReplaceInLine(code[n], kind, v,
                              hitLines # {} /\ n = (CHOOSE h \in hitLines : \A g \in hitLines : h <= g))]

\* replacePlaceholders(code, placeholderValues)
replacePlaceholders(code, values) ==
    ReplaceKind(ReplaceKind(ReplaceKind(ReplaceKind(code,
        "private_key", values["private_key"]),
        "api_key", values["api_key"]),
        "wallet_address", values["wallet_address"]),
        "rpc_endpoint", values["rpc_endpoint"])

\* replacePlaceholders on a single command line
replaceLine(line, values) == replacePlaceholders(<<line>>, values)[1]

\* ------------------------------------------------------------------ paths
\* A filename is a sequence of segments; an absolute one starts with "/".
\* A directory (cwd, project root) is the sequence of its segments from
\* the filesystem root.
IsAbsolute(f) == f # <<>> /\ Head(f) = "/"

\* path.basename
basename(f) == <<Last(f)>>

RECURSIVE NormAbs(_, _)
\* Resolve segments against the directory acc: ".." goes up (not above "/").
NormAbs(segs, acc) ==
    IF segs = <<>> THEN acc
    ELSE IF Head(segs) = ".."
         THEN NormAbs(Tail(segs), IF acc = <<>> THEN <<>> ELSE SubSeq(acc, 1, Len(acc) - 1))
         ELSE NormAbs(Tail(segs), Append(acc, Head(segs)))

RECURSIVE NormRel(_, _)
\* path.normalize of a relative path: ".." cancels a preceding name and is
\* kept when there is none.
NormRel(segs, acc) ==
    IF segs = <<>> THEN acc
    ELSE IF Head(segs) = ".." /\ acc # <<>> /\ Last(acc) # ".."
         THEN NormRel(Tail(segs), SubSeq(acc, 1, Len(acc) - 1))
         ELSE NormRel(Tail(segs), Append(acc, Head(segs)))

\* path.join(a, b) for relative a and b
pathJoin(a, b) == NormRel(a \o b, <<>>)

\* path.relative(from, to) where `from` is an ancestor of `to` or equal
pathRelative(from, to) ==
    IF IsPrefix(from, to) THEN SubSeq(to, Len(from) + 1, Len(to))
    ELSE <<"..">> \o to

\* The absolute location (segments from "/") the OS resolves filename to,
\* for a process whose working directory is dir.
Resolve(dir, f) == IF IsAbsolute(f) THEN NormAbs(Tail(f), <<>>) ELSE NormAbs(f, dir)

\* path.dirname(p) of an absolute location
dirnameOf(p) == IF p = <<>> THEN <<>> ELSE SubSeq(p, 1, Len(p) - 1)

\* The location lies in dir or below it.
InsideDir(dir, p) == IsPrefix(dir, p) /\ Len(p) > Len(dir)

\* ----------------------------------------------------------------- parser
\* extractCodeBlocks sees the markdown as a flat sequence of tokens: the
\* fence (three backticks), the line break, the blank, and words.  A word
\* of letters and digits only can be the language tag of a fence.
\* Fence stands for the three backquotes
Fence == "FENCE"
NL == "\n"
Blank == " "
RECURSIVE Glue(_)
\* adjacent words read as one string
Glue(ws) == IF ws = <<>> THEN "" ELSE Head(ws) \o Glue(Tail(ws))
\* The words [a-zA-Z0-9]* matches: js, JS and x, xx, xxx, ...
TagWords == {"js", "JS"} \cup {Glue([n \in 1..k |-> "x"]) : k \in 1..MaxSegments}
IsSpace(t) == t \in {NL, Blank}
\* The case of every letter swapped
LowerSwapped(t) == IF t = "JS" THEN "js" ELSE IF t = "js" THEN "JS" ELSE t

\* toLowerCase
Lower(t) == IF t = "JS" THEN "js" ELSE t

RECURSIVE trim(_)
\* String.prototype.trim
trim(s) ==
    IF s = <<>> THEN <<>>
    ELSE IF IsSpace(Head(s)) THEN trim(Tail(s))
    ELSE IF IsSpace(Last(s)) THEN trim(SubSeq(s, 1, Len(s) - 1))
    ELSE s

\* The first position from j on that holds no tag word (Len + 1: none).
RECURSIVE TagEnd(_, _)
TagEnd(text, j) ==
    IF j <= Len(text) /\ text[j] \in TagWords THEN TagEnd(text, j + 1) ELSE j

\* The first position from j on that holds a fence (0: none).
RECURSIVE NextFence(_, _)
NextFence(text, j) ==
    IF j > Len(text) THEN 0
    ELSE IF text[j] = Fence THEN j
    ELSE NextFence(text, j + 1)

\* codeBlockRegex matched at position i: fence, [a-zA-Z0-9]*, line break,
\* then lazily everything up to the next fence.  end = 0: no match at i.
MatchAt(text, i) ==
    LET k == TagEnd(text, i + 1)
        m == IF k <= Len(text) /\ text[k] = NL THEN NextFence(text, k + 1) ELSE 0
    IN  IF text[i] = Fence /\ m # 0
        THEN [end |-> m, tag |-> Glue(SubSeq(text, i + 1, k - 1)),
              body |-> SubSeq(text, k + 1, m - 1)]
        ELSE [end |-> 0, tag |-> "", body |-> <<>>]

\* The exec loop of extractCodeBlocks from position i on: the regex has the
\* g flag, the next search starts behind the closing fence of the match.
RECURSIVE ScanBlocks(_, _)
ScanBlocks(text, i) ==
    IF i > Len(text) THEN <<>>
    ELSE LET match == MatchAt(text, i)
             code == trim(match.body)
         IN  IF match.end = 0 THEN ScanBlocks(text, i + 1)
             ELSE (IF trim(code) # <<>>
                   THEN << [language |-> Lower(match.tag), code |-> code] >>
                   ELSE <<>>) \o ScanBlocks(text, match.end + 1)

\* extractCodeBlocks(markdown)
extractCodeBlocks(markdown) == ScanBlocks(markdown, 1)

\* ------------------------------------------------------------- classifier
ShellTags == {"bash", "shell", "sh", ""}
ShellVerbs == {"npm", "node", "cd", "mkdir"}

\* isBashOrShell || looksLikeCommand  (autoProcessCodeBlocks)
IsCommandBlock(block) ==
    \/ block.language \in ShellTags
    \/ /\ block.language = ""
       /\ block.code # <<>> /\ Head(block.code) # <<>>
       /\ Head(Head(block.code)) \in ShellVerbs

\* codeBlocks.filter(...) keeping the order
RECURSIVE FilterBlocks(_, _)
FilterBlocks(blocks, wantCommand) ==
    IF blocks = <<>> THEN <<>>
    ELSE IF IsCommandBlock(Head(blocks)) = wantCommand
         THEN <<Head(blocks)>> \o FilterBlocks(Tail(blocks), wantCommand)
         ELSE FilterBlocks(Tail(blocks), wantCommand)

fileBlocksOf(blocks) == FilterBlocks(blocks, FALSE)
commandBlocksOf(blocks) == FilterBlocks(blocks, TRUE)

\* ------------------------------------------------------ filename inference
\* `script${i}.js` and friends: the ordinal is part of the name
Ordinal(i) == CASE i = 1 -> "1" [] i = 2 -> "2" [] i = 3 -> "3" [] OTHER -> "n"

\* The language-based fallback name of the i-th file block (1-based).
FallbackName(block, i) ==
    CASE block.language \in {"javascript", "js"} -> <<"script" \o Ordinal(i) \o ".js">>
      [] block.language \in {"typescript", "ts"} -> <<"script" \o Ordinal(i) \o ".ts">>
      [] block.language \in {"rust", "rs"}       -> <<"program" \o Ordinal(i) \o ".rs">>
      [] block.language \in {"solidity", "sol"}  -> <<"contract" \o Ordinal(i) \o ".sol">>
      [] block.language = "plaintext" ->
            IF \E t \in FlatTokens(block.code) : t \in {EnvVar(k) : k \in Kinds} \cup {"="}
            THEN <<".env">>
            ELSE <<"file" \o Ordinal(i) \o ".txt">>
      [] OTHER -> <<"file" \o Ordinal(i) \o "." \o block.language>>

\* filenameMatches: the matches of filenameMatcher, then those of createMatcher
filenameMatchesOf(response) == response.named \o response.created

\* The filename of the i-th file block before containment.
InferFilename(response, block, i) ==
    IF i <= Len(filenameMatchesOf(response))
    THEN filenameMatchesOf(response)[i]
    ELSE FallbackName(block, i)

\* "Path awareness" of autoProcessCodeBlocks: the filename handed to createFile.
\* root = <<>> stands for projectInfo = null.
ContainFilename(filename, root, dir) ==
    IF root # <<>> /\ ~IsAbsolute(filename)
    THEN LET f1 == IF Head(filename) = ".." THEN basename(filename) ELSE filename
             rel == pathRelative(root, dir)
         IN  IF dir # root /\ (rel = <<>> \/ Head(rel) # "..")
             THEN pathJoin(rel, f1)
             ELSE f1
    ELSE filename

\* ------------------------------------------------------ env-file formatting
\* Tokens that contain "=" and tokens that contain "//".
KeyEqTokens == {EnvVar(k) : k \in Kinds} \cup {"FOO="}
HasEq(t) == t \in KeyEqTokens \cup {"="}
HasSlashes(t) == t \in {"//", "https://rpc"}
\* what is left of a token in front of its first "//"
BeforeSlashes(t) == IF t = "https://rpc" THEN <<"https:">> ELSE <<>>
EndsWithEnv(filename) == Last(filename) \in {".env", "prod.env"}
EndsWithScript(filename) ==
    Last(filename) \in {"script1.js", "script2.js", "script3.js", "x.js", "y.js",
                        "fix.js", "app.js", "run.sh"}
IsComment(line) == line # <<>> /\ Head(line) = "#"

\* The operator's values; a value in single or double quotes loses them.
Unquote(t) ==
    IF \E v \in {"abc123", "k2", "key1", "wal1", "https://rpc", "https:"} : t = Quote(v)
    THEN CHOOSE v \in {"abc123", "k2", "key1", "wal1", "https://rpc", "https:"} : t = Quote(v)
    ELSE t

\* The per-line rewrite of autoProcessCodeBlocks for a name ending in .env
EnvLineAuto(line) ==
    IF line = <<>> \/ IsComment(line) THEN line
    ELSE LET sl  == {k \in DOMAIN line : HasSlashes(line[k])}
             cut == IF sl = {} THEN line
                    ELSE LET k == CHOOSE h \in sl : \A g \in sl : h <= g
                         IN  SubSeq(line, 1, k - 1) \o BeforeSlashes(line[k])
             eqs == {k \in DOMAIN cut : HasEq(cut[k])}
         IN  IF eqs = {} THEN cut
             ELSE LET e == CHOOSE h \in eqs : \A g \in eqs : h <= g
                      value == SubSeq(cut, e + 1, Len(cut))
                  IN  SubSeq(cut, 1, e) \o
                      (IF Len(value) = 1 THEN <<Unquote(value[1])>> ELSE value)

\* The rewrite of createFile putting double quotes around a bare value
EnvLineCreateQuoting(line) ==
    IF line = <<>> \/ IsComment(line) THEN line
    ELSE IF Head(line) \in KeyEqTokens
    THEN IF Len(line) = 2 THEN <<line[1], Quote(line[2])>> ELSE line
    ELSE IF Head(line) \in {"export", "const", "key"} THEN <<Head(line) \o "=">> \o Tail(line)
    ELSE line

\* The per-line rewrite of createFile for a name ending in .env:
\* `${key}=${value}` around the first identifier of the line.
EnvLineCreate(line) ==
    IF line = <<>> \/ IsComment(line) THEN line
    ELSE IF Head(line) \in KeyEqTokens THEN line
    ELSE IF Head(line) \in {"export", "const", "key"} THEN <<Head(line) \o "=">> \o Tail(line)
    ELSE line

EnvFormatAuto(code) == [n \in DOMAIN code |-> EnvLineAuto(code[n])]
EnvFormatCreate(code) == [n \in DOMAIN code |-> EnvLineCreate(code[n])]

\* ----------------------------------------------------------------- inputs
\* Values the operator may type at a prompt (each passes the validation of
\* its kind: non-empty, and an http prefix for rpc_endpoint).
PromptValues(kind) ==
    CASE kind = "private_key"    -> {"abc123"}
      [] kind = "api_key"        -> {"key1"}
      [] kind = "wallet_address" -> {"wal1"}
      [] kind = "rpc_endpoint"   -> {"https://rpc"}

NpmInstall == <<"npm", "install">>
NpmTest == <<"npm", "test">>

\* Responses of the generation service to the user's query.  named and
\* created are the captures of filenameMatcher and of createMatcher, prose
\* the placeholder tokens outside the code blocks.
MainResponses ==
  { [named |-> << <<"..", "..", "x.js">> >>, created |-> <<>>, prose |-> {},
     blocks |-> << [language |-> "js", code |-> << <<"run", "()">> >>],
                   [language |-> "bash", code |-> << <<"npm", "run", "lint">>, NpmTest >>] >>],
    [named |-> << <<"/", "etc", "passwd">> >>, created |-> << <<"a", "..", "..", "y.js">> >>,
     prose |-> {"'your_private_key_here'"},
     blocks |-> << [language |-> "js", code |-> << <<"const", "k", "=", "[YourPrivateKey]">> >>],
                   [language |-> "js", code |-> << <<"const", "a", "=", "[YourAPIKey]">> >>],
                   [language |-> "bash", code |-> << <<"node", "y.js", "[YourAPIKey]">> >>] >>],
    [named |-> <<>>, created |-> <<>>, prose |-> {},
     blocks |-> << [language |-> "plaintext", code |-> << <<"PRIVATE_KEY=", "[YourPrivateKeyArray]">> >>],
                   [language |-> "bash", code |-> << <<"sudo", "rm -rf", "/">>, NpmTest >>],
                   [language |-> "", code |-> << <<"#", "install">>, NpmInstall, NpmInstall >>] >>],
    [named |-> <<>>, created |-> <<>>, prose |-> {}, blocks |-> <<>>] }

\* Responses of the generation service to a remediation request.  mention
\* is the filename the fileMatchers find in the solution text (<<>>: none).
Solutions ==
  { [mention |-> <<>>,
     blocks |-> << [language |-> "bash", code |-> <<NpmInstall>>] >>],
    [mention |-> <<"..", "fix.js">>,
     blocks |-> << [language |-> "sh", code |-> << <<"sudo", "chown", "me">>,
                                                   <<"node", "fix.js", "[YourPrivateKey]">> >>],
                   [language |-> "js", code |-> << <<"key", "[YourPrivateKey]">> >>] >>],
    [mention |-> <<>>, blocks |-> <<>>] }

\* Error texts a command may print.  sig: the signature substrings the
\* handlers test for; module: the name between the quotes after
\* `Cannot find module`; path: the path between the quotes after ENOENT.
NoText == [sig |-> {}, module |-> <<>>, path |-> <<>>]
PlainErrorText == [sig |-> {"Error:"}, module |-> <<>>, path |-> <<>>]
MissingModuleText(name) ==
    [sig |-> {"Error:", "npm ERR!", "Cannot find module"}, module |-> name, path |-> <<>>]
NoSuchFileText ==
    [sig |-> {"Error:", "ENOENT"}, module |-> <<>>, path |-> <<"/", "tmp", "out", "a.txt">>]
EslintText ==
    [sig |-> {"Error:", "ESLint", "ESLint couldn't find an eslint.config", "eslint.config"},
     module |-> <<>>, path |-> <<>>]

\* The message of the exception a failing filesystem call throws.
FsErrorText == [sig |-> {"Error:", "EACCES", "permission denied"}, module |-> <<>>, path |-> <<>>]

\* Lines as the code's `includes` sees them: b occurs as a run of
\* consecutive tokens of a.
IncludesLine(a, b) ==
    \E k \in 0..(Len(a) - Len(b)) : SubSeq(a, k + 1, k + Len(b)) = b

\* The error text a command prints when it exits non-zero.
FailureText(command) ==
    IF IncludesLine(command, NpmInstall) THEN MissingModuleText(<<"left-pad">>)
    ELSE IF IncludesLine(command, NpmTest) THEN MissingModuleText(<<"x;", "rm -rf", "~">>)
    ELSE IF IncludesLine(command, <<"node">>) THEN NoSuchFileText
    ELSE IF IncludesLine(command, <<"lint">>) THEN EslintText
    ELSE PlainErrorText

\* What the shell may report for a command: exit code, stderr (NoText:
\* none or warnings only), whether stderr is non-empty, whether stdout has
\* "0 vulnerabilities".
Outcomes(command) ==
    { [exit |-> 0, text |-> NoText, stderr |-> FALSE, vuln |-> FALSE],
      [exit |-> 0, text |-> NoText, stderr |-> TRUE, vuln |-> FALSE],
      [exit |-> 0, text |-> NoText, stderr |-> TRUE, vuln |-> TRUE],
      [exit |-> 0, text |-> FailureText(command), stderr |-> TRUE, vuln |-> FALSE],
      [exit |-> 1, text |-> FailureText(command), stderr |-> TRUE, vuln |-> FALSE] }

\* stderr.includes('Error:') || stderr.includes('error:') || stderr.includes('fatal:')
HasErrorToken(text) == text.sig \cap {"Error:", "error:", "fatal:"} # {}
ReportsError(o) == o.exit # 0 \/ HasErrorToken(o.text)

\* Project contexts: root = <<>> when projectInfo is null.
Contexts ==
    { [root |-> <<>>, cwd |-> <<"home", "proj">>],
      [root |-> <<"home", "proj">>, cwd |-> <<"home", "proj">>],
      [root |-> <<"home", "proj">>, cwd |-> <<"home", "proj", "sub">>] }

\* ------------------------------------------------------------------ state
VARIABLES
    phase,              \* position of assist(): "start", "running", "done"
    stack,              \* call frames below assist(), innermost first
    exc,                \* an exception is propagating out of the innermost frame
    ctx,                \* projectInfo.path (root) and process.cwd()
    aiResponse,         \* the response to the user's query
    placeholderValues,  \* placeholderValues of autoProcessCodeBlocks
    executionStats,     \* the module-level executionStats
    files,              \* the filesystem: absolute location -> content
    prompts,            \* log: the kind of every inquirer prompt
    requests,           \* log: every remediation request sent to the service
    writes,             \* log: every file write (location and writer)
    applied,            \* log: the fix hashes applied in the current chain
    failures,           \* commands that reported an error so far
    fsFaults,           \* filesystem calls that failed so far
    summaries,          \* calls of displayExecutionSummary
    call                \* a function of the module applied on its own: its
                        \* name, its arguments and, once applied, its result

vars == <<phase, stack, exc, ctx, aiResponse, placeholderValues, executionStats,
          files, prompts, requests, writes, applied, failures, fsFaults,
          summaries, call>>

\* resetExecutionStats
ResetStats ==
    [executed |-> <<>>, successful |-> 0, failed |-> 0,
     created |-> <<>>, updated |-> <<>>, failedFiles |-> <<>>,
     detected |-> 0, resolved |-> 0, unresolved |-> 0]

\* no function is applied on its own while the engine runs
NoCall == [op |-> "none"]

NoResponse == [named |-> <<>>, created |-> <<>>, prose |-> {}, blocks |-> <<>>]

\* A project root is a directory that holds an ARVIL package.json.
InitialFiles(c) ==
    IF c.root = <<>> THEN <<>>
    ELSE (Append(c.root, "package.json") :> << <<"name">>, <<"keywords">> >>)

Init ==
    /\ phase = "start"
    /\ stack = <<>>
    /\ exc = FALSE
    /\ ctx \in Contexts
    /\ aiResponse = NoResponse
    /\ placeholderValues = NoBindings
    /\ executionStats = ResetStats
    /\ files = InitialFiles(ctx)
    /\ prompts = <<>>
    /\ requests = <<>>
    /\ writes = <<>>
    /\ applied = <<>>
    /\ failures = 0
    /\ fsFaults = 0
    /\ summaries = 0
    /\ call = NoCall

\* ----------------------------------------------------------------- frames
Top == Head(stack)
TopIs(kind) == stack # <<>> /\ Top.kind = kind
Push(f, st) == <<f>> \o st
ReplaceTop(f) == <<f>> \o Tail(stack)

AutoFrame ==
    [kind |-> "auto", phase |-> "detect", p |-> 1, i |-> 1, l |-> 1,
     executedCommands |-> {}, errorMessages |-> <<>>]

\* executeCommand in flight; idx is the position of its commandStats
ExecFrame(command, idx) ==
    [kind |-> "exec", command |-> command, idx |-> idx, phase |-> "run",
     outcome |-> [exit |-> 0, text |-> NoText, stderr |-> FALSE, vuln |-> FALSE]]

\* `result` before the first fix command has returned
NoResult == [success |-> FALSE, command |-> <<>>, vuln |-> FALSE, stderr |-> FALSE]

\* attemptErrorResolution: both sets start empty in every call; last is
\* the `result` of the fix command executed last, providerError tells that
\* the generation call of this remediation threw
ResolveFrame(failedCommand, errorMessage) ==
    [kind |-> "resolve", failedCommand |-> failedCommand, errorMessage |-> errorMessage,
     phase |-> "request", inCatch |-> FALSE,
     attemptedSolutions |-> {}, executedCommands |-> {},
     solution |-> [mention |-> <<>>, blocks |-> <<>>], b |-> 1, l |-> 1,
     last |-> NoResult, providerError |-> FALSE]

HandlerFrame(name, todo) == [kind |-> "handler", name |-> name, todo |-> todo]

\* The errorMessage an exec failure carries: `Command failed: <cmd>` and stderr.
\* cmd = <<>> when the message is stderr alone.
Message(cmd, text) == [cmd |-> cmd, text |-> text]
\* errorMessage.includes(s) for a signature substring s
Has(msg, s) == s \in msg.text.sig \/ s \in SeqToSet(msg.cmd)

\* code.includes('sudo ') || code.includes('rm -rf') for one line
UnsafeLine(line) ==
    \/ \E k \in DOMAIN line : line[k] = "sudo" /\ k < Len(line)
    \/ \E k \in DOMAIN line : line[k] = "rm -rf"
\* The block test looking at the last line of the block only
UnsafeCodeLastLine(code) == code # <<>> /\ UnsafeLine(code[Len(code)])

\* block.code.includes('sudo ') || block.code.includes('rm -rf')
UnsafeCode(code) == \E n \in DOMAIN code : UnsafeLine(code[n])

\* .filter(line => line.trim() && !line.trim().startsWith('#'))
\* .map(line => line.replace(/\s*\\$/, ''))
RECURSIVE commandLinesOf(_)
commandLinesOf(code) ==
    IF code = <<>> THEN <<>>
    ELSE LET line == Head(code)
             rest == commandLinesOf(Tail(code))
         IN  IF line = <<>> \/ IsComment(line) THEN rest
             ELSE IF Last(line) = "\\" THEN <<SubSeq(line, 1, Len(line) - 1)>> \o rest
             ELSE <<line>> \o rest

\* includes('[YourPrivateKey') || includes('your_actual_private_key_here')
LooksLikeExample(line) ==
    \E k \in DOMAIN line :
        line[k] \in {"[YourPrivateKey]", "[YourPrivateKeyArray]", "[YourPrivateKeyHere]",
                     "'your_actual_private_key_here'", "your_actual_private_key_here"}

\* The commandStats record appended with its flag already set
StatsWithCommandOptimistic(stats, command) ==
    [stats EXCEPT !.executed = Append(@, [command |-> command, success |-> TRUE])]

\* executeCommand up to the exec call: the commandStats record is appended
StatsWithCommand(stats, command) ==
    [stats EXCEPT !.executed = Append(@, [command |-> command, success |-> FALSE])]

\* executeCommand(command) called without `await`: the caller goes on and
\* the next call starts while this one is in flight.
CallExecDetached(command, st) ==
    Push(ExecFrame(command, Len(executionStats.executed) + 1),
         Push(ExecFrame(command, Len(executionStats.executed) + 1), st))

\* The frames of a call of executeCommand(command) on top of st.
CallExec(command, st) == Push(ExecFrame(command, Len(executionStats.executed) + 1), st)

\* --------------------------------------------------------- file operations
\* Kinds of failure of one createFile call: none, the write (or mkdirp)
\* throws, the chmod after the write throws.
FileFaults(filename) ==
    {"none"} \cup (IF (fsFaults < MaxFsFaults /\ failures + fsFaults < MaxFailures)
                   THEN {"write"} \cup (IF EndsWithScript(filename) THEN {"chmod"} ELSE {})
                   ELSE {})

\* createFile(filename, content): the new executionStats, files, writes
createFile(filename, content, fault) ==
    LET final == IF EndsWithEnv(filename) THEN EnvFormatCreate(content) ELSE content
        loc   == Resolve(ctx.cwd, filename)
        wrote == [executionStats EXCEPT !.created = Append(@, filename)]
        fail(st) == [st EXCEPT !.failedFiles = Append(@, filename), !.detected = @ + 1]
    IN  IF fault = "write"
        THEN [stats |-> fail(executionStats), files |-> files, writes |-> writes]
        ELSE [stats |-> IF fault = "chmod" THEN fail(wrote) ELSE wrote,
              files |-> (loc :> final) @@ files,
              writes |-> Append(writes, [loc |-> loc, by |-> "createFile"])]

RECURSIVE TrimLines(_)
\* envContent.trim() seen line by line: the blank lines at both ends go
TrimLines(content) ==
    IF content = <<>> THEN <<>>
    ELSE IF Head(content) = <<>> THEN TrimLines(Tail(content))
    ELSE IF Last(content) = <<>> THEN TrimLines(SubSeq(content, 1, Len(content) - 1))
    ELSE content

\* updateEnvFile(key, value) on the content of .env (<<>> when absent):
\* the regex has the m flag and no g flag, the first matching line is replaced
updateEnvFile(content, var, v) ==
    LET hits == {n \in DOMAIN content : content[n] # <<>> /\ Head(content[n]) = var}
    IN  TrimLines(IF hits # {}
                  THEN [content EXCEPT ![CHOOSE h \in hits : \A g \in hits : h <= g] = <<var, v>>]
                  ELSE Append(content, <<var, v>>))

EnvPath == Append(ctx.cwd, ".env")
ReadFile(loc) == IF loc \in DOMAIN files THEN files[loc] ELSE <<>>

\* ----------------------------------------------------------------- assist
\* assist(): the generation call and what follows it when it returns no
\* code block or fails.
Generate ==
    /\ phase = "start"
    /\ UNCHANGED <<ctx, placeholderValues, files, prompts, requests, writes, applied,
                   failures, fsFaults, exc>>
    /\ \/ \E r \in MainResponses :
            /\ aiResponse' = r
            /\ IF r.blocks = <<>>
               THEN /\ phase' = "done"
                    /\ stack' = <<>>
                    /\ summaries' = summaries + 1
               ELSE /\ phase' = "running"
                    /\ stack' = <<AutoFrame>>
                    /\ summaries' = summaries
            /\ executionStats' = ResetStats
       \/ \* the generation call throws (ProviderError)
          /\ aiResponse' = aiResponse
          /\ phase' = "done"
          /\ stack' = <<>>
          /\ summaries' = summaries + 1
          /\ executionStats' = [ResetStats EXCEPT !.detected = 1, !.unresolved = 1]
    /\ UNCHANGED call

\* ------------------------------------------------- autoProcessCodeBlocks
RECURSIVE NormAuto(_)
\* Move the position of the main pass to the next artifact to process.
NormAuto(f) ==
    IF f.phase = "files"
    THEN IF f.i > Len(fileBlocksOf(aiResponse.blocks))
         THEN NormAuto([f EXCEPT !.phase = "cmds", !.i = 1, !.l = 1])
         ELSE f
    ELSE IF f.phase = "cmds"
    THEN IF f.i > Len(commandBlocksOf(aiResponse.blocks))
         THEN [f EXCEPT !.phase = "batch"]
         ELSE IF f.l > Len(commandLinesOf(commandBlocksOf(aiResponse.blocks)[f.i].code))
              THEN NormAuto([f EXCEPT !.i = @ + 1, !.l = 1])
              ELSE f
    ELSE f

\* The tokens pattern.regex is tested against: allCode and aiResponse
ScannedTokensOf(response) ==
    response.prose \cup
    UNION {FlatTokens(response.blocks[n].code) : n \in DOMAIN response.blocks}
ScannedTokens == ScannedTokensOf(aiResponse)

\* `if (!placeholderValues[pattern.type])`
NeedsPrompt(pattern, values) == values[pattern.type] = NoValue

\* detectAndPromptForPlaceholders: one iteration of the loop over patterns
DetectStep ==
    /\ TopIs("auto") /\ Top.phase = "detect" /\ ~exc
    /\ LET pattern == patterns[Top.p]
           next == IF Top.p = Len(patterns)
                   THEN NormAuto([Top EXCEPT !.phase = "files"])
                   ELSE [Top EXCEPT !.p = @ + 1]
       IN  IF pattern.tokens \cap ScannedTokens # {} /\ NeedsPrompt(pattern, placeholderValues)
           THEN \E v \in PromptValues(pattern.type) :
                  /\ prompts' = Append(prompts, pattern.type)
                  /\ placeholderValues' = [placeholderValues EXCEPT ![pattern.type] = v]
                  /\ \/ /\ files' = (EnvPath :> updateEnvFile(ReadFile(EnvPath), EnvVar(pattern.type), v)) @@ files
                        /\ writes' = Append(writes, [loc |-> EnvPath, by |-> "updateEnvFile"])
                        /\ stack' = ReplaceTop(next)
                        /\ UNCHANGED <<exc, fsFaults>>
                     \/ \* fs.writeFileSync throws
                        /\ (fsFaults < MaxFsFaults /\ failures + fsFaults < MaxFailures)
                        /\ fsFaults' = fsFaults + 1
                        /\ exc' = TRUE
                        /\ UNCHANGED <<files, writes, stack>>
           ELSE /\ stack' = ReplaceTop(next)
                /\ UNCHANGED <<prompts, placeholderValues, files, writes, exc, fsFaults>>
    /\ UNCHANGED <<phase, ctx, aiResponse, executionStats, requests, applied, failures,
                   summaries>>
    /\ UNCHANGED call

\* The loop over fileBlocks: one file artifact
FileStep ==
    /\ TopIs("auto") /\ Top.phase = "files" /\ ~exc
    /\ LET block == fileBlocksOf(aiResponse.blocks)[Top.i]
           filename == ContainFilename(InferFilename(aiResponse, block, Top.i), ctx.root, ctx.cwd)
           replaced == replacePlaceholders(block.code, placeholderValues)
           content == IF EndsWithEnv(filename) THEN EnvFormatAuto(replaced) ELSE replaced
       IN  \E fault \in FileFaults(filename) :
             LET r == createFile(filename, content, fault)
             IN  /\ executionStats' = r.stats
                 /\ files' = r.files
                 /\ writes' = r.writes
                 /\ fsFaults' = IF fault = "none" THEN fsFaults ELSE fsFaults + 1
    /\ stack' = ReplaceTop(NormAuto([Top EXCEPT !.i = @ + 1]))
    /\ UNCHANGED <<phase, exc, ctx, aiResponse, placeholderValues, prompts, requests,
                   applied, failures, summaries>>
    /\ UNCHANGED call

\* The loop over commandBlocks: one command line (or one unsafe block)
CommandStep ==
    /\ TopIs("auto") /\ Top.phase = "cmds" /\ ~exc
    /\ LET block == commandBlocksOf(aiResponse.blocks)[Top.i]
           line == commandLinesOf(block.code)[Top.l]
           commandWithReplacements == replaceLine(line, placeholderValues)
           skipLine == NormAuto([Top EXCEPT !.l = @ + 1])
       IN  IF UnsafeCode(block.code)
           THEN /\ stack' = ReplaceTop(NormAuto([Top EXCEPT !.i = @ + 1, !.l = 1]))
                /\ UNCHANGED executionStats
           ELSE IF LooksLikeExample(commandWithReplacements)
                   \/ commandWithReplacements \in Top.executedCommands
           THEN /\ stack' = ReplaceTop(skipLine)
                /\ UNCHANGED executionStats
           ELSE /\ stack' = CallExec(commandWithReplacements,
                                     ReplaceTop([Top EXCEPT !.executedCommands =
                                                     @ \cup {commandWithReplacements}]))
                /\ executionStats' = StatsWithCommand(executionStats, commandWithReplacements)
    /\ UNCHANGED <<phase, exc, ctx, aiResponse, placeholderValues, files, prompts, requests,
                   writes, applied, failures, fsFaults, summaries>>
    /\ UNCHANGED call

\* ---------------------------------------------------------- executeCommand
RECURSIVE NormResolve(_)
\* Move the position of a fix application to the next artifact to process.
NormResolve(f) ==
    IF f.phase # "apply" THEN f
    ELSE IF f.b > Len(f.solution.blocks) THEN [f EXCEPT !.phase = "post"]
    ELSE IF /\ f.solution.blocks[f.b].language \in ShellTags
            /\ f.l > Len(commandLinesOf(f.solution.blocks[f.b].code))
         THEN NormResolve([f EXCEPT !.b = @ + 1, !.l = 1])
         ELSE f

\* The success test reduced to `result.success && command.includes(failedCommand)`
FixSucceededEchoOnly(result, failedCommand) ==
    /\ result.success
    /\ IncludesLine(result.command, failedCommand)

\* `result.success && (command.includes(failedCommand) ||
\*    result.output.includes("0 vulnerabilities") || !result.error)`
FixSucceeded(result, failedCommand) ==
    /\ result.success
    /\ \/ IncludesLine(result.command, failedCommand)
       \/ result.vuln
       \/ ~result.stderr

\* The caller's frame after executeCommand returned result to it.
AfterExec(caller, result) ==
    IF caller.kind = "auto"
    THEN NormAuto([caller EXCEPT !.l = @ + 1,
                                 !.errorMessages = IF result.success THEN @
                                                   ELSE Append(@, result.command)])
    ELSE IF caller.kind = "resolve"
    THEN IF FixSucceeded(result, caller.failedCommand)
         THEN [caller EXCEPT !.phase = "return", !.last = result]
         ELSE NormResolve([caller EXCEPT !.l = @ + 1, !.last = result])
    ELSE caller

\* Pop the exec frame on top of the stack and hand result to its caller.
Return(result) ==
    LET below == Tail(stack)
    IN  <<AfterExec(Head(below), result)>> \o Tail(below)

\* The success update taking back one counted failure
MarkSuccessRecounting(stats, idx) ==
    [stats EXCEPT !.executed[idx].success = TRUE, !.successful = @ + 1,
                  !.failed = IF @ > 0 THEN @ - 1 ELSE 0]

\* `commandStats.success = true; executionStats.commands.successful++`
MarkSuccess(stats, idx) ==
    [stats EXCEPT !.executed[idx].success = TRUE, !.successful = @ + 1]

\* executeCommand: the shell runs the command and reports an outcome
ExecRun ==
    /\ TopIs("exec") /\ Top.phase = "run" /\ ~exc
    /\ \E o \in Outcomes(Top.command) :
         /\ ReportsError(o) => failures + fsFaults < MaxFailures
         /\ failures' = IF ReportsError(o) THEN failures + 1 ELSE failures
         /\ IF o.exit = 0
            THEN IF o.stderr /\ HasErrorToken(o.text)
                 THEN /\ executionStats' = [executionStats EXCEPT !.detected = @ + 1]
                      /\ stack' = Push(ResolveFrame(Top.command, Message(<<>>, o.text)),
                                       ReplaceTop([Top EXCEPT !.phase = "resolvingOk",
                                                              !.outcome = o]))
                      /\ applied' = IF \E n \in DOMAIN stack : stack[n].kind = "resolve"
                                    THEN applied ELSE <<>>
                 ELSE /\ executionStats' = MarkSuccess(executionStats, Top.idx)
                      /\ stack' = Return([success |-> TRUE, command |-> Top.command,
                                          vuln |-> o.vuln, stderr |-> o.stderr])
                      /\ applied' = applied
            ELSE /\ executionStats' = [executionStats EXCEPT !.failed = @ + 1,
                                                             !.detected = @ + 1]
                 /\ stack' = Push(ResolveFrame(Top.command, Message(Top.command, o.text)),
                                  ReplaceTop([Top EXCEPT !.phase = "resolvingFail",
                                                         !.outcome = o]))
                 /\ applied' = IF \E n \in DOMAIN stack : stack[n].kind = "resolve"
                               THEN applied ELSE <<>>
    /\ UNCHANGED <<phase, exc, ctx, aiResponse, placeholderValues, files, prompts, requests,
                   writes, fsFaults, summaries>>
    /\ UNCHANGED call

\* executeCommand after attemptErrorResolution returned (or threw)
ExecResume ==
    /\ TopIs("exec") /\ Top.phase \in {"resolvingOk", "resolvingFail"}
    /\ IF ~exc
       THEN /\ IF Top.phase = "resolvingOk"
               THEN /\ executionStats' = MarkSuccess(executionStats, Top.idx)
                    /\ stack' = Return([success |-> TRUE, command |-> Top.command,
                                        vuln |-> Top.outcome.vuln, stderr |-> Top.outcome.stderr])
               ELSE /\ executionStats' = executionStats
                    /\ stack' = Return([success |-> FALSE, command |-> Top.command,
                                        vuln |-> FALSE, stderr |-> TRUE])
            /\ UNCHANGED <<exc, applied>>
       ELSE IF Top.phase = "resolvingOk"
       THEN \* the throw happened inside the try block: the catch block runs
            /\ executionStats' = [executionStats EXCEPT !.failed = @ + 1, !.detected = @ + 1]
            /\ stack' = Push(ResolveFrame(Top.command, Message(<<>>, FsErrorText)),
                             ReplaceTop([Top EXCEPT !.phase = "resolvingFail"]))
            /\ exc' = FALSE
            /\ applied' = IF \E n \in DOMAIN stack : stack[n].kind = "resolve"
                          THEN applied ELSE <<>>
       ELSE \* the throw happened inside the catch block: it leaves executeCommand
            /\ stack' = Tail(stack)
            /\ UNCHANGED <<executionStats, exc, applied>>
    /\ UNCHANGED <<phase, ctx, aiResponse, placeholderValues, files, prompts, requests,
                   writes, failures, fsFaults, summaries>>
    /\ UNCHANGED call

\* --------------------------------------------------- attemptErrorResolution
\* JSON.stringify(fixCodeBlocks.map(block => block.code))
solutionHash(solution) == [n \in DOMAIN solution.blocks |-> solution.blocks[n].code]

\* `if (attemptedSolutions.has(solutionHash))`
AlreadyAttempted(frame, solution) == solutionHash(solution) \in frame.attemptedSolutions

InHandler == \E n \in DOMAIN stack : stack[n].kind = "handler"

\* The remediation request and the response of the generation service
Request ==
    /\ TopIs("resolve") /\ Top.phase = "request" /\ ~exc
    /\ requests' = Append(requests, [failedCommand |-> Top.failedCommand,
                                     errorMessage |-> Top.errorMessage,
                                     inHandler |-> InHandler])
    /\ \/ \E s \in Solutions :
            IF s.blocks = <<>> \/ AlreadyAttempted(Top, s)
            THEN /\ stack' = ReplaceTop([Top EXCEPT !.phase = "common"])
                 /\ applied' = applied
            ELSE /\ stack' = ReplaceTop(NormResolve(
                               [Top EXCEPT !.phase = "apply", !.solution = s,
                                           !.attemptedSolutions = @ \cup {solutionHash(s)}]))
                 /\ applied' = Append(applied, solutionHash(s))
       \/ \* the generation call throws: the catch block runs handleCommonErrors
          /\ stack' = ReplaceTop([Top EXCEPT !.phase = "common", !.inCatch = TRUE,
                                              !.providerError = TRUE])
          /\ applied' = applied
    /\ UNCHANGED <<phase, exc, ctx, aiResponse, placeholderValues, executionStats, files,
                   prompts, writes, failures, fsFaults, summaries>>
    /\ UNCHANGED call

\* The filename of a file-kind fix block when the solution text names none
FixFallbackName(block) ==
    CASE block.language \in {"javascript", "js"} -> <<"fix.js">>
      [] block.language = "json" -> <<"config.json">>
      [] block.language \in {"env", "plaintext"} ->
            IF \E t \in FlatTokens(block.code) : HasEq(t) THEN <<".env">> ELSE <<"fix.txt">>
      [] OTHER -> <<"fix." \o block.language>>

FixFilename(solution, block) ==
    IF solution.mention # <<>> THEN solution.mention ELSE FixFallbackName(block)

\* The loop over fixCodeBlocks: one command line or one file block
ApplyStep ==
    /\ TopIs("resolve") /\ Top.phase = "apply" /\ ~exc
    /\ LET block == Top.solution.blocks[Top.b]
       IN  IF block.language \in ShellTags
           THEN LET command == commandLinesOf(block.code)[Top.l]
                IN  /\ IF UnsafeLine(command) \/ command \in Top.executedCommands
                       THEN /\ stack' = ReplaceTop(NormResolve([Top EXCEPT !.l = @ + 1]))
                            /\ UNCHANGED executionStats
                       ELSE /\ stack' = CallExec(command,
                                           ReplaceTop([Top EXCEPT !.executedCommands =
                                                           @ \cup {command}]))
                            /\ executionStats' = StatsWithCommand(executionStats, command)
                    /\ UNCHANGED <<files, writes, fsFaults>>
           ELSE LET filename == FixFilename(Top.solution, block)
                IN  \E fault \in FileFaults(filename) :
                      LET r == createFile(filename, block.code, fault)
                      IN  /\ executionStats' = r.stats
                          /\ files' = r.files
                          /\ writes' = r.writes
                          /\ fsFaults' = IF fault = "none" THEN fsFaults ELSE fsFaults + 1
                          /\ stack' = ReplaceTop(NormResolve([Top EXCEPT !.b = @ + 1, !.l = 1]))
    /\ UNCHANGED <<phase, exc, ctx, aiResponse, placeholderValues, prompts, requests,
                   applied, failures, summaries>>
    /\ UNCHANGED call

\* attemptErrorResolution returns, or an exception reaches it
ResolveReturn ==
    /\ TopIs("resolve")
    /\ IF ~exc
       THEN /\ Top.phase = "return"
            /\ stack' = Tail(stack)
            /\ exc' = exc
       ELSE IF ~Top.inCatch
       THEN \* thrown inside the try block: the catch block runs handleCommonErrors
            /\ stack' = ReplaceTop([Top EXCEPT !.phase = "common", !.inCatch = TRUE])
            /\ exc' = FALSE
       ELSE \* thrown inside the catch block: it leaves attemptErrorResolution
            /\ stack' = Tail(stack)
            /\ exc' = exc
    /\ UNCHANGED <<phase, ctx, aiResponse, placeholderValues, executionStats, files, prompts,
                   requests, writes, applied, failures, fsFaults, summaries>>
    /\ UNCHANGED call

\* ---------------------------------------------------------------- handlers
EslintInstall == <<"npm", "install", "eslint", "--save-dev">>

\* handleNpmErrors without its missing-dependency branch
NpmHandlerCommandsGeneral(msg) ==
    IF Has(msg, "EACCES") \/ Has(msg, "permission denied")
    THEN << <<"mkdir", "-p", "~/.npm-global">>,
            <<"npm", "config", "set", "prefix", "~/.npm-global">>,
            NpmInstall >>
    ELSE IF Has(msg, "ENOENT") /\ Has(msg, "package.json")
    THEN << <<"npm", "init", "-y">> >>
    ELSE << <<"npm", "cache", "clean", "--force">>, NpmInstall >>

\* The commands handleNpmErrors passes to executeCommand
NpmHandlerCommands(msg) ==
    IF Has(msg, "EACCES") \/ Has(msg, "permission denied")
    THEN << <<"mkdir", "-p", "~/.npm-global">>,
            <<"npm", "config", "set", "prefix", "~/.npm-global">>,
            NpmInstall >>
    ELSE IF Has(msg, "ENOENT") /\ Has(msg, "package.json")
    THEN << <<"npm", "init", "-y">> >>
    ELSE IF Has(msg, "Cannot find module")
    THEN IF msg.text.module # <<>>
         THEN << NpmInstall \o msg.text.module \o <<"--save">> >>
         ELSE <<>>
    ELSE << <<"npm", "cache", "clean", "--force">>, NpmInstall >>

InCwd(name) == Append(ctx.cwd, name)
Exists(name) == InCwd(name) \in DOMAIN files

\* The files handleEslintErrors writes, in order
EslintWrites(msg) ==
    LET packageJson == IF Exists("package.json") THEN files[InCwd("package.json")] ELSE <<>>
        hasField(f) == \E n \in DOMAIN packageJson : packageJson[n] = <<f>>
    IN  IF ~(Has(msg, "ESLint couldn't find an eslint.config") \/ Has(msg, "ESLint")
             \/ Has(msg, "eslint"))
        THEN <<>>
        ELSE IF Has(msg, "ESLint couldn't find an eslint.config")
        THEN << [loc |-> InCwd("eslint.config.js"), content |-> << <<"export", "default">> >>] >>
             \o (IF Exists("package.json") /\ ~hasField("type")
                 THEN << [loc |-> InCwd("package.json"),
                          content |-> Append(packageJson, <<"type">>)] >>
                 ELSE <<>>)
        ELSE IF Has(msg, "eslintrc") \/ ~Exists("eslint.config.js")
        THEN IF ~Exists(".eslintrc.js") /\ ~Exists(".eslintrc.json") /\ ~Exists(".eslintrc")
             THEN << [loc |-> InCwd(".eslintrc.json"), content |-> << <<"env">> >>] >>
             ELSE <<>>
        ELSE IF Exists("package.json")
             THEN << [loc |-> InCwd("package.json"),
                      content |-> IF hasField("eslintConfig") THEN packageJson
                                  ELSE Append(packageJson, <<"eslintConfig">>)] >>
             ELSE <<>>

\* path.extname(filePath) is not empty
HasExtname(f) == Last(f) \in {"a.txt", "x.js", "y.js", "fix.js", "passwd.txt"}

\* The files handleFileErrors writes
FileHandlerWrites(msg) ==
    IF Has(msg, "ENOENT") /\ msg.text.path # <<>> /\ HasExtname(msg.text.path)
    THEN << [loc |-> Resolve(ctx.cwd, msg.text.path), content |-> <<>>] >>
    ELSE <<>>

RECURSIVE WriteAll(_, _)
WriteAll(ws, fs) ==
    IF ws = <<>> THEN fs ELSE WriteAll(Tail(ws), (Head(ws).loc :> Head(ws).content) @@ fs)

RECURSIVE LogAll(_, _, _)
LogAll(ws, log, by) ==
    IF ws = <<>> THEN log
    ELSE LogAll(Tail(ws), Append(log, [loc |-> Head(ws).loc, by |-> by]), by)


\* The branch of handleNpmErrors that runs
NpmBranch(msg) ==
    IF Has(msg, "EACCES") \/ Has(msg, "permission denied") THEN "permission"
    ELSE IF Has(msg, "ENOENT") /\ Has(msg, "package.json") THEN "manifest"
    ELSE IF Has(msg, "Cannot find module") THEN "module"
    ELSE "general"

\* handleCommonErrors testing for file errors before npm errors
CommonHandlerFileFirst(failedCommand, msg) ==
    IF Has(msg, "ESLint") /\ Has(msg, "eslint.config") THEN "eslint"
    ELSE IF Has(msg, "ENOENT") \/ Has(msg, "permission denied") THEN "file"
    ELSE IF Has(msg, "npm ERR!") \/ IncludesLine(failedCommand, NpmInstall) THEN "npm"
    ELSE "none"

\* handleCommonErrors: the first handler whose test passes
CommonHandler(failedCommand, msg) ==
    IF Has(msg, "ESLint") /\ Has(msg, "eslint.config") THEN "eslint"
    ELSE IF Has(msg, "npm ERR!") \/ IncludesLine(failedCommand, NpmInstall) THEN "npm"
    ELSE IF Has(msg, "ENOENT") \/ Has(msg, "permission denied") THEN "file"
    ELSE "none"

\* The handler attemptErrorResolution runs after it applied a fix
PostHandler(msg) ==
    IF Has(msg, "ESLint") THEN "eslint"
    ELSE IF Has(msg, "npm ERR!") THEN "npm"
    ELSE "none"

\* A handler is called from the frame on top of base: its filesystem part
\* runs (and may throw at any of its writes), then its commands are queued.
RunHandler(name, msg, base) ==
    LET ws == IF name = "eslint" THEN EslintWrites(msg)
              ELSE IF name = "file" THEN FileHandlerWrites(msg)
              ELSE <<>>
        by == IF name = "eslint" THEN "handleEslintErrors" ELSE "handleFileErrors"
    IN  \E n \in 0..Len(ws) :
          /\ files' = WriteAll(SubSeq(ws, 1, n), files)
          /\ writes' = LogAll(SubSeq(ws, 1, n), writes, by)
          /\ IF n < Len(ws)
             THEN /\ (fsFaults < MaxFsFaults /\ failures + fsFaults < MaxFailures)
                  /\ fsFaults' = fsFaults + 1
                  /\ exc' = TRUE
                  /\ stack' = base
             ELSE /\ fsFaults' = fsFaults
                  /\ exc' = exc
                  /\ stack' = IF name = "eslint"
                              THEN Push(HandlerFrame("eslint", <<EslintInstall>>), base)
                              ELSE IF name = "npm"
                              THEN Push(HandlerFrame("npm", NpmHandlerCommands(msg)), base)
                              ELSE base

\* handleCommonErrors(failedCommand, errorMessage), from the try or the catch block
HandleCommon ==
    /\ TopIs("resolve") /\ Top.phase = "common" /\ ~exc
    /\ RunHandler(CommonHandler(Top.failedCommand, Top.errorMessage), Top.errorMessage,
                  ReplaceTop([Top EXCEPT !.phase = "return"]))
    /\ UNCHANGED <<phase, ctx, aiResponse, placeholderValues, executionStats, prompts,
                   requests, applied, failures, summaries>>
    /\ UNCHANGED call

\* The end of the fix application: the targeted handler for ESLint and npm errors
PostFix ==
    /\ TopIs("resolve") /\ Top.phase = "post" /\ ~exc
    /\ RunHandler(PostHandler(Top.errorMessage), Top.errorMessage,
                  ReplaceTop([Top EXCEPT !.phase = "return"]))
    /\ UNCHANGED <<phase, ctx, aiResponse, placeholderValues, executionStats, prompts,
                   requests, applied, failures, summaries>>
    /\ UNCHANGED call

\* A handler passes its next command to executeCommand, or returns
HandlerStep ==
    /\ TopIs("handler")
    /\ IF exc
       THEN \* only handleEslintErrors has a try around its executeCommand
            /\ stack' = Tail(stack)
            /\ exc' = IF Top.name = "eslint" THEN FALSE ELSE exc
            /\ UNCHANGED executionStats
       ELSE /\ exc' = exc
            /\ IF Top.todo = <<>>
               THEN /\ stack' = Tail(stack)
                    /\ UNCHANGED executionStats
               ELSE /\ stack' = CallExec(Head(Top.todo), ReplaceTop([Top EXCEPT !.todo = Tail(@)]))
                    /\ executionStats' = StatsWithCommand(executionStats, Head(Top.todo))
    /\ UNCHANGED <<phase, ctx, aiResponse, placeholderValues, files, prompts, requests,
                   writes, applied, failures, fsFaults, summaries>>
    /\ UNCHANGED call

\* ------------------------------------------------- end of the main pass
RECURSIVE JoinLines(_)
JoinLines(ls) == IF ls = <<>> THEN <<>> ELSE Head(ls) \o JoinLines(Tail(ls))

\* `if (errorsOccurred)`: the batch remediation, or the return to assist
BatchStep ==
    /\ TopIs("auto") /\ Top.phase = "batch" /\ ~exc
    /\ IF Top.errorMessages # <<>>
       THEN /\ executionStats' = [executionStats EXCEPT !.detected = @ + Len(Top.errorMessages)]
            /\ stack' = Push(ResolveFrame(<<"auto-process">>,
                                          Message(JoinLines(Top.errorMessages), NoText)),
                             ReplaceTop([Top EXCEPT !.phase = "end"]))
            /\ applied' = <<>>
            /\ UNCHANGED <<phase, summaries>>
       ELSE /\ stack' = <<>>
            /\ phase' = "done"
            /\ summaries' = summaries + 1
            /\ UNCHANGED <<executionStats, applied>>
    /\ UNCHANGED <<exc, ctx, aiResponse, placeholderValues, files, prompts, requests,
                   writes, failures, fsFaults>>
    /\ UNCHANGED call

\* autoProcessCodeBlocks returns to assist, which displays the summary
AutoReturn ==
    /\ TopIs("auto") /\ Top.phase = "end" /\ ~exc
    /\ stack' = <<>>
    /\ phase' = "done"
    /\ summaries' = summaries + 1
    /\ UNCHANGED <<exc, ctx, aiResponse, placeholderValues, executionStats, files, prompts,
                   requests, writes, applied, failures, fsFaults>>
    /\ UNCHANGED call

\* An exception leaves autoProcessCodeBlocks: the catch block of assist
AssistCatch ==
    /\ TopIs("auto") /\ exc
    /\ stack' = <<>>
    /\ exc' = FALSE
    /\ phase' = "done"
    /\ executionStats' = [executionStats EXCEPT !.detected = @ + 1, !.unresolved = @ + 1]
    /\ summaries' = summaries + 1
    /\ UNCHANGED <<ctx, aiResponse, placeholderValues, files, prompts, requests, writes,
                   applied, failures, fsFaults>>
    /\ UNCHANGED call

Next ==
    \/ Generate
    \/ DetectStep
    \/ FileStep
    \/ CommandStep
    \/ ExecRun
    \/ ExecResume
    \/ Request
    \/ ApplyStep
    \/ ResolveReturn
    \/ HandleCommon
    \/ PostFix
    \/ HandlerStep
    \/ BatchStep
    \/ AutoReturn
    \/ AssistCatch

Spec == Init /\ [][Next]_vars

\* ====================================================== the earlier variant
\* The copy of commands/assist.js that has no execution statistics and no
\* fallback handlers.  Its attemptErrorResolution applies a fix by calling
\* autoProcessCodeBlocks on the fix response, and that call scans the fix
\* response for placeholders with a placeholderValues of its own.  Its
\* executeCommand receives a whole command block as one command.

\* Responses of the generation service to a remediation request, in the
\* shape autoProcessCodeBlocks reads them.
LegacySolutions ==
  { [named |-> <<>>, created |-> <<>>, prose |-> {},
     blocks |-> << [language |-> "bash", code |-> <<NpmInstall>>] >>],
    [named |-> <<>>, created |-> <<>>, prose |-> {},
     blocks |-> << [language |-> "js", code |-> << <<"key", "[YourPrivateKey]">> >>],
                   [language |-> "bash", code |-> << <<"node", "script1.js">> >>] >>],
    [named |-> <<>>, created |-> <<>>, prose |-> {}, blocks |-> <<>>] }

\* autoProcessCodeBlocks(codeBlocks, aiResponse, projectInfo) in flight
LegacyAutoFrame(response, root) ==
    [kind |-> "auto", response |-> response, root |-> root, values |-> NoBindings,
     phase |-> "detect", p |-> 1, i |-> 1, errorMessages |-> <<>>]

LegacyExecFrame(command) == [kind |-> "exec", command |-> command, phase |-> "run"]

LegacyResolveFrame(failedCommand, errorMessage) ==
    [kind |-> "resolve", failedCommand |-> failedCommand, errorMessage |-> errorMessage,
     phase |-> "request"]

\* A command block as the one command string executeCommand receives: its
\* lines with the line breaks between them.
RECURSIVE BlockCommand(_)
BlockCommand(code) ==
    IF code = <<>> THEN <<>>
    ELSE IF Len(code) = 1 THEN Head(code)
    ELSE Head(code) \o <<"\n">> \o BlockCommand(Tail(code))

\* Move the position of a pass to the next artifact to process.
LegacyNormAuto(f) ==
    LET g == IF f.phase = "files" /\ f.i > Len(fileBlocksOf(f.response.blocks))
             THEN [f EXCEPT !.phase = "cmds", !.i = 1]
             ELSE f
    IN  IF g.phase = "cmds" /\ g.i > Len(commandBlocksOf(g.response.blocks))
        THEN [g EXCEPT !.phase = "batch"]
        ELSE g

\* assist(): the generation call and what follows it
LegacyGenerate ==
    /\ phase = "start"
    /\ \/ \E r \in MainResponses :
            /\ aiResponse' = r
            /\ IF r.blocks = <<>>
               THEN phase' = "done" /\ stack' = <<>>
               ELSE phase' = "running" /\ stack' = <<LegacyAutoFrame(r, ctx.root)>>
       \/ \* the generation call throws: the catch block logs the error
          /\ aiResponse' = aiResponse
          /\ phase' = "done"
          /\ stack' = <<>>
    /\ UNCHANGED <<exc, ctx, placeholderValues, executionStats, files, prompts, requests,
                   writes, applied, failures, fsFaults, summaries>>
    /\ UNCHANGED call

\* detectAndPromptForPlaceholders: one iteration of the loop over patterns
LegacyDetectStep ==
    /\ TopIs("auto") /\ Top.phase = "detect" /\ ~exc
    /\ LET pattern == patterns[Top.p]
           next(f) == IF f.p = Len(patterns)
                      THEN LegacyNormAuto([f EXCEPT !.phase = "files"])
                      ELSE [f EXCEPT !.p = @ + 1]
       IN  IF /\ pattern.tokens \cap ScannedTokensOf(Top.response) # {}
              /\ NeedsPrompt(pattern, Top.values)
           THEN \E v \in PromptValues(pattern.type) :
                  /\ prompts' = Append(prompts, pattern.type)
                  /\ \/ /\ files' = (EnvPath :> updateEnvFile(ReadFile(EnvPath),
                                                              EnvVar(pattern.type), v)) @@ files
                        /\ writes' = Append(writes, [loc |-> EnvPath, by |-> "updateEnvFile"])
                        /\ stack' = ReplaceTop(next([Top EXCEPT !.values[pattern.type] = v]))
                        /\ UNCHANGED <<exc, fsFaults>>
                     \/ \* fs.writeFileSync throws
                        /\ (fsFaults < MaxFsFaults /\ failures + fsFaults < MaxFailures)
                        /\ fsFaults' = fsFaults + 1
                        /\ exc' = TRUE
                        /\ stack' = ReplaceTop([Top EXCEPT !.values[pattern.type] = v])
                        /\ UNCHANGED <<files, writes>>
           ELSE /\ stack' = ReplaceTop(next(Top))
                /\ UNCHANGED <<prompts, files, writes, exc, fsFaults>>
    /\ UNCHANGED <<phase, ctx, aiResponse, placeholderValues, executionStats, requests,
                   applied, failures, summaries>>
    /\ UNCHANGED call

\* The loop over fileBlocks: one file artifact.  createFile catches what
\* its filesystem calls throw.
LegacyFileStep ==
    /\ TopIs("auto") /\ Top.phase = "files" /\ ~exc
    /\ LET block == fileBlocksOf(Top.response.blocks)[Top.i]
           filename == ContainFilename(InferFilename(Top.response, block, Top.i),
                                       Top.root, ctx.cwd)
           content == replacePlaceholders(block.code, Top.values)
           loc == Resolve(ctx.cwd, filename)
       IN  \E fault \in FileFaults(filename) :
             /\ IF fault = "write"
                THEN UNCHANGED <<files, writes>>
                ELSE /\ files' = (loc :> content) @@ files
                     /\ writes' = Append(writes, [loc |-> loc, by |-> "createFile"])
             /\ fsFaults' = IF fault = "none" THEN fsFaults ELSE fsFaults + 1
    /\ stack' = ReplaceTop(LegacyNormAuto([Top EXCEPT !.i = @ + 1]))
    /\ UNCHANGED <<phase, exc, ctx, aiResponse, placeholderValues, executionStats, prompts,
                   requests, applied, failures, summaries>>
    /\ UNCHANGED call

\* The loop over commandBlocks: one command block
LegacyCommandStep ==
    /\ TopIs("auto") /\ Top.phase = "cmds" /\ ~exc
    /\ LET block == commandBlocksOf(Top.response.blocks)[Top.i]
           commandWithReplacements == replacePlaceholders(block.code, Top.values)
       IN  IF \/ UnsafeCode(block.code)
              \/ \E n \in DOMAIN commandWithReplacements :
                    LooksLikeExample(commandWithReplacements[n])
           THEN stack' = ReplaceTop(LegacyNormAuto([Top EXCEPT !.i = @ + 1]))
           ELSE stack' = Push(LegacyExecFrame(BlockCommand(commandWithReplacements)), stack)
    /\ UNCHANGED <<phase, exc, ctx, aiResponse, placeholderValues, executionStats, files,
                   prompts, requests, writes, applied, failures, fsFaults, summaries>>
    /\ UNCHANGED call

\* The caller's frame after executeCommand returned to it.
LegacyAfterExec(caller, command, success) ==
    IF caller.kind = "auto"
    THEN LegacyNormAuto([caller EXCEPT !.i = @ + 1,
                                       !.errorMessages = IF success THEN @
                                                         ELSE Append(@, command)])
    ELSE [caller EXCEPT !.phase = "return"]

LegacyReturn(success) ==
    LET below == Tail(stack)
    IN  <<LegacyAfterExec(Head(below), Top.command, success)>> \o Tail(below)

\* executeCommand: the shell runs the command and reports an outcome
LegacyExecRun ==
    /\ TopIs("exec") /\ Top.phase = "run" /\ ~exc
    /\ \E o \in Outcomes(Top.command) :
         /\ ReportsError(o) => failures + fsFaults < MaxFailures
         /\ failures' = IF ReportsError(o) THEN failures + 1 ELSE failures
         /\ IF o.exit = 0 /\ ~(o.stderr /\ HasErrorToken(o.text))
            THEN stack' = LegacyReturn(TRUE)
            ELSE stack' = Push(LegacyResolveFrame(Top.command,
                                    Message(IF o.exit = 0 THEN <<>> ELSE Top.command, o.text)),
                               ReplaceTop([Top EXCEPT !.phase = IF o.exit = 0
                                                                THEN "resolvingOk"
                                                                ELSE "resolvingFail"]))
    /\ UNCHANGED <<phase, exc, ctx, aiResponse, placeholderValues, executionStats, files,
                   prompts, requests, writes, applied, fsFaults, summaries>>
    /\ UNCHANGED call

\* executeCommand after attemptErrorResolution returned
LegacyExecResume ==
    /\ TopIs("exec") /\ Top.phase \in {"resolvingOk", "resolvingFail"} /\ ~exc
    /\ stack' = LegacyReturn(Top.phase = "resolvingOk")
    /\ UNCHANGED <<phase, exc, ctx, aiResponse, placeholderValues, executionStats, files,
                   prompts, requests, writes, applied, failures, fsFaults, summaries>>
    /\ UNCHANGED call

\* The remediation request; a fix with code blocks is applied by
\* autoProcessCodeBlocks(fixCodeBlocks, solution)
LegacyRequest ==
    /\ TopIs("resolve") /\ Top.phase = "request" /\ ~exc
    /\ requests' = Append(requests, [failedCommand |-> Top.failedCommand,
                                     errorMessage |-> Top.errorMessage,
                                     inHandler |-> FALSE])
    /\ \/ \E s \in LegacySolutions :
            stack' = IF s.blocks = <<>>
                     THEN ReplaceTop([Top EXCEPT !.phase = "return"])
                     ELSE Push(LegacyAutoFrame(s, <<>>),
                               ReplaceTop([Top EXCEPT !.phase = "applied"]))
       \/ \* the generation call throws: the catch block logs the error
          stack' = ReplaceTop([Top EXCEPT !.phase = "return"])
    /\ UNCHANGED <<phase, exc, ctx, aiResponse, placeholderValues, executionStats, files,
                   prompts, writes, applied, failures, fsFaults, summaries>>
    /\ UNCHANGED call

\* After the fix was applied: the retry of a failed installation command.
\* An exception out of the fix application ends in the catch block.
LegacyRetry ==
    /\ TopIs("resolve") /\ Top.phase = "applied"
    /\ exc' = FALSE
    /\ IF ~exc /\ (\/ IncludesLine(Top.failedCommand, NpmInstall)
                   \/ IncludesLine(Top.failedCommand, <<"yarn", "add">>))
       THEN stack' = Push(LegacyExecFrame(Top.failedCommand),
                          ReplaceTop([Top EXCEPT !.phase = "retried"]))
       ELSE stack' = ReplaceTop([Top EXCEPT !.phase = "return"])
    /\ UNCHANGED <<phase, ctx, aiResponse, placeholderValues, executionStats, files, prompts,
                   requests, writes, applied, failures, fsFaults, summaries>>
    /\ UNCHANGED call

\* attemptErrorResolution returns
LegacyResolveReturn ==
    /\ TopIs("resolve") /\ Top.phase = "return" /\ ~exc
    /\ stack' = Tail(stack)
    /\ UNCHANGED <<phase, exc, ctx, aiResponse, placeholderValues, executionStats, files,
                   prompts, requests, writes, applied, failures, fsFaults, summaries>>
    /\ UNCHANGED call

\* `if (errorsOccurred)`: the batch remediation
LegacyBatchStep ==
    /\ TopIs("auto") /\ Top.phase = "batch" /\ ~exc
    /\ IF Top.errorMessages # <<>>
       THEN stack' = Push(LegacyResolveFrame(<<"auto-process">>,
                                             Message(JoinLines(Top.errorMessages), NoText)),
                          ReplaceTop([Top EXCEPT !.phase = "end"]))
       ELSE stack' = ReplaceTop([Top EXCEPT !.phase = "end"])
    /\ UNCHANGED <<phase, exc, ctx, aiResponse, placeholderValues, executionStats, files,
                   prompts, requests, writes, applied, failures, fsFaults, summaries>>
    /\ UNCHANGED call

\* autoProcessCodeBlocks returns, or an exception leaves it: to
\* attemptErrorResolution when it applied a fix, else to assist, whose
\* catch block logs an exception.
LegacyAutoReturn ==
    /\ TopIs("auto") /\ (Top.phase = "end" \/ exc)
    /\ stack' = Tail(stack)
    /\ IF Tail(stack) = <<>>
       THEN phase' = "done" /\ exc' = FALSE
       ELSE UNCHANGED <<phase, exc>>
    /\ UNCHANGED <<ctx, aiResponse, placeholderValues, executionStats, files, prompts,
                   requests, writes, applied, failures, fsFaults, summaries>>
    /\ UNCHANGED call

LegacyNext ==
    \/ LegacyGenerate
    \/ LegacyDetectStep
    \/ LegacyFileStep
    \/ LegacyCommandStep
    \/ LegacyExecRun
    \/ LegacyExecResume
    \/ LegacyRequest
    \/ LegacyRetry
    \/ LegacyResolveReturn
    \/ LegacyBatchStep
    \/ LegacyAutoReturn

LegacySpec == Init /\ [][LegacyNext]_vars



\* ================================================================ claims
Executed == executionStats.executed
ResolveFrames == {n \in DOMAIN stack : stack[n].kind = "resolve"}
NoDuplicates(seq) == \A i, j \in DOMAIN seq : i # j => seq[i] # seq[j]
Count(seq, x) == Cardinality({n \in DOMAIN seq : seq[n] = x})
HasPlaceholderOf(kindSet, code) ==
    \E k \in kindSet : PlaceholderTokens(k) \cap FlatTokens(code) # {}
\* the locations createFile wrote, with their present content
CreatedLocs == {writes[n].loc : n \in {m \in DOMAIN writes : writes[m].by = "createFile"}}
BoundKinds == {k \in Kinds : placeholderValues[k] # NoValue}

\* C1: the Error Resolution Loop terminates: a remediation never runs
\* nested inside a remediation of the same failing command with the same
\* error.  (The inner call starts in the state the outer call started in,
\* so a service and a shell that repeat their answers repeat the nesting
\* without end.)
C1_NoRemediationCycle ==
    \A i, j \in ResolveFrames :
        i # j => \/ stack[i].failedCommand # stack[j].failedCommand
                 \/ stack[i].errorMessage # stack[j].errorMessage

\* C2: no command string is passed to the shell more than once in a session.
C2_NoCommandTwice ==
    \A i, j \in DOMAIN Executed : i # j => Executed[i].command # Executed[j].command

\* C3: within one remediation chain no fix hash is applied twice.
C3_NoFixReapplied == NoDuplicates(applied)

\* C4: no remediation request is issued while a fallback handler is active.
C4_HandlersTerminal == \A n \in DOMAIN requests : ~requests[n].inHandler

\* C5: no command containing `sudo ` or `rm -rf` is passed to the shell.
C5_NoUnsafeCommand == \A n \in DOMAIN Executed : ~UnsafeLine(Executed[n].command)

\* C6: no command that still contains a placeholder token of a catalog kind
\* is passed to the shell.
C6_NoPlaceholderCommand ==
    \A n \in DOMAIN Executed : ~HasPlaceholderOf(Kinds, <<Executed[n].command>>)

\* C7: every file write of the session lands inside the working directory.
C7_WritesInsideCwd == \A n \in DOMAIN writes : InsideDir(ctx.cwd, writes[n].loc)

\* C8: the operator is prompted at most once per placeholder kind in one
\* session, remediation rounds included.  (Under Spec detection runs once
\* per session; under LegacySpec every applied fix runs it again.)
C8_PromptOncePerKind == \A k \in Kinds : Count(prompts, k) <= 1

\* C9: no placeholder of a bound kind is left in a command passed to the
\* shell or in a file written from an artifact.
C9_BoundPlaceholdersReplaced ==
    /\ \A n \in DOMAIN Executed : ~HasPlaceholderOf(BoundKinds, <<Executed[n].command>>)
    /\ \A loc \in CreatedLocs : ~HasPlaceholderOf(BoundKinds, files[loc])

\* The commands of the main pass that pass its gates, and the filenames of
\* its file artifacts.
MainCommands ==
    LET cb == commandBlocksOf(aiResponse.blocks)
    IN  {c \in UNION {{replaceLine(commandLinesOf(cb[n].code)[m], placeholderValues) :
                          m \in DOMAIN commandLinesOf(cb[n].code)} :
                      n \in {k \in DOMAIN cb : ~UnsafeCode(cb[k].code)}} :
            ~LooksLikeExample(c)}
MainFilenames ==
    LET fb == fileBlocksOf(aiResponse.blocks)
    IN  {ContainFilename(InferFilename(aiResponse, fb[n], n), ctx.root, ctx.cwd) : n \in DOMAIN fb}

\* C10: a session in which a file write or a command failed still attempts
\* every file artifact and every command of the main pass, and ends with
\* the summary.
C10_BatchCompletes ==
    (phase = "done" /\ (failures > 0 \/ executionStats.failedFiles # <<>>))
        => /\ summaries = 1
           /\ MainCommands \subseteq {Executed[n].command : n \in DOMAIN Executed}
           /\ MainFilenames \subseteq
                 SeqToSet(executionStats.created) \cup SeqToSet(executionStats.failedFiles)

\* The file-kind blocks of a fix response that follow block b
LaterFileBlocks(solution, b) ==
    {k \in DOMAIN solution.blocks : k > b /\ solution.blocks[k].language \notin ShellTags}

\* C11: within one pass every file artifact is written before a command of
\* the pass is executed: while a command of the main pass runs the file
\* loop is over, and while a command of a fix response runs no file block
\* of that response is still to be written.
C11_FilesBeforeCommands ==
    \A n \in DOMAIN stack :
        (stack[n].kind = "exec" /\ n < Len(stack)) =>
            /\ stack[n + 1].kind = "auto" => stack[n + 1].phase = "cmds"
            /\ (stack[n + 1].kind = "resolve" /\ stack[n + 1].phase = "apply") =>
                   LaterFileBlocks(stack[n + 1].solution, stack[n + 1].b) = {}

\* The command lines of the main pass in parse order (block order, then
\* line order), without the blocks and lines the pass skips.
RECURSIVE MainLines(_)
MainLines(cb) ==
    IF cb = <<>> THEN <<>>
    ELSE LET lines == commandLinesOf(Head(cb).code)
             kept  == IF UnsafeCode(Head(cb).code) THEN <<>>
                      ELSE [n \in DOMAIN lines |-> replaceLine(lines[n], placeholderValues)]
         IN  SelectSeq(kept, LAMBDA c : ~LooksLikeExample(c)) \o MainLines(Tail(cb))

\* C12: commands run strictly sequentially.  A command in flight is the
\* innermost activity of the session (so at most one is in flight, and
\* nothing else advances until it has ended), and the commands the main
\* pass has started are a prefix of its commands in parse order.
C12_CommandsSequential ==
    /\ \A n \in DOMAIN stack : (stack[n].kind = "exec" /\ stack[n].phase = "run") => n = 1
    /\ (stack # <<>> /\ stack[Len(stack)].kind = "auto") =>
          LET order   == MainLines(commandBlocksOf(aiResponse.blocks))
              started == stack[Len(stack)].executedCommands
          IN  \A x, y \in DOMAIN order :
                 (x < y /\ order[y] \in started) => order[x] \in started

\* C12 witness: the second command of a block is in flight after the first
\* one failed and its remediation, which ran a command of its own, ended.
C12_Witness ==
    /\ TopIs("exec") /\ Top.phase = "run"
    /\ Len(stack) = 2 /\ stack[2].kind = "auto" /\ stack[2].l = 2
    /\ Len(Executed) >= 3
    /\ ~Executed[1].success

\* C13: the Error Resolution Loop is entered for a command exactly when
\* it exits non-zero or its stderr has an error token, and a zero-exit
\* command is never treated as failed: a command whose remediation runs on
\* the success path has exit 0 and an error token, a command whose
\* remediation runs on the failure path has a non-zero exit.
C13_LoopEntry ==
    \A n \in DOMAIN stack :
        stack[n].kind = "exec" =>
            /\ stack[n].phase = "resolvingOk" =>
                   /\ stack[n].outcome.exit = 0
                   /\ stack[n].outcome.stderr /\ HasErrorToken(stack[n].outcome.text)
            /\ stack[n].phase = "resolvingFail" => stack[n].outcome.exit # 0

\* C14: once a fix command has succeeded and (its text contains the
\* failing command, or its output reports 0 vulnerabilities, or it printed
\* nothing on stderr), the remediation is about to return: it applies no
\* further block of the proposal and runs no fallback handler.
C14_ResolvedEndsLoop ==
    \A n \in DOMAIN stack :
        (/\ stack[n].kind = "resolve"
         /\ stack[n].last.success
         /\ \/ IncludesLine(stack[n].last.command, stack[n].failedCommand)
            \/ stack[n].last.vuln
            \/ ~stack[n].last.stderr)
        => (n = 1 /\ stack[n].phase = "return")

\* C14 witness: a fix command that does not contain the failing command
\* succeeded without error output, and a file block of the proposal is
\* left unapplied.
C14_Witness ==
    /\ TopIs("resolve") /\ Top.phase = "return"
    /\ Top.last.success /\ ~Top.last.stderr
    /\ ~IncludesLine(Top.last.command, Top.failedCommand)
    /\ LaterFileBlocks(Top.solution, Top.b) # {}

\* C15: when the remediation of a failed dependency installation
\* (`npm install`, `yarn add`) has applied a proposed fix and is about to
\* return, the failed command has been invoked again: it has a second
\* execution record.
C15_RetriedAfterFix ==
    (/\ TopIs("resolve") /\ Top.phase = "return" /\ ~exc
     /\ Top.solution.blocks # <<>>
     /\ \/ IncludesLine(Top.failedCommand, NpmInstall)
        \/ IncludesLine(Top.failedCommand, <<"yarn", "add">>))
    => Cardinality({n \in DOMAIN Executed : Executed[n].command = Top.failedCommand}) >= 2

\* C16: a fallback handler called from the try block of a remediation runs
\* only when that remediation applied no fix (the response had no fix
\* blocks or repeated an attempted fix).
C16_HandlersOnlyWithoutFix ==
    \A n \in DOMAIN stack :
        (/\ stack[n].kind = "handler" /\ n < Len(stack)
         /\ stack[n + 1].kind = "resolve" /\ ~stack[n + 1].inCatch)
        => stack[n + 1].solution.blocks = <<>>

\* C17: no fallback handler runs for a remediation whose generation call
\* failed.
C17_NoHandlerAfterProviderError ==
    \A n \in DOMAIN stack :
        (stack[n].kind = "handler" /\ n < Len(stack) /\ stack[n + 1].kind = "resolve")
        => ~stack[n + 1].providerError

\* C18: when the summary is produced every detected error is accounted
\* for as resolved or as unresolved.
C18_ErrorsAccounted ==
    phase = "done" =>
        executionStats.detected = executionStats.resolved + executionStats.unresolved

\* The command loop of the main pass is at a block or a line it skips
SkipsMainCommand ==
    /\ TopIs("auto") /\ Top.phase = "cmds" /\ ~exc
    /\ LET block == commandBlocksOf(aiResponse.blocks)[Top.i]
           command == replaceLine(commandLinesOf(block.code)[Top.l], placeholderValues)
       IN  \/ \E n \in DOMAIN block.code : UnsafeLine(block.code[n])
           \/ LooksLikeExample(command)
           \/ command \in Top.executedCommands

\* The loop over the lines of a fix block is at a line it skips
SkipsFixCommand ==
    /\ TopIs("resolve") /\ Top.phase = "apply" /\ ~exc
    /\ Top.solution.blocks[Top.b].language \in ShellTags
    /\ LET command == commandLinesOf(Top.solution.blocks[Top.b].code)[Top.l]
       IN  UnsafeLine(command) \/ command \in Top.executedCommands

\* C19: a step that skips a command (safety gate, example check or
\* duplicate check) appends no execution record and changes no counter.
C19_SkipLeavesStats ==
    [][(SkipsMainCommand \/ SkipsFixCommand) => executionStats' = executionStats]_vars

\* C19 witness: the main pass has skipped the block holding `sudo rm -rf /`
\* and no command has been recorded or counted.
C19_Witness ==
    /\ TopIs("auto") /\ Top.phase = "cmds" /\ Top.i = 2
    /\ UnsafeCode(commandBlocksOf(aiResponse.blocks)[1].code)
    /\ Executed = <<>>
    /\ executionStats.failed = 0 /\ executionStats.successful = 0

\* The error text has `Cannot find module '<m>'` and neither the
\* permission nor the missing-manifest signature
MissingModuleOnly(msg) ==
    /\ Has(msg, "Cannot find module") /\ msg.text.module # <<>>
    /\ ~(Has(msg, "EACCES") \/ Has(msg, "permission denied"))
    /\ ~(Has(msg, "ENOENT") /\ Has(msg, "package.json"))

InstallModule(msg) == <<"npm", "install">> \o msg.text.module \o <<"--save">>

\* C20: the dependency-manager handler running for such an error text
\* passes exactly `npm install <m> --save` to executeCommand (it is its one
\* pending command, or it has been executed and none is pending); and when
\* the remediation of a failed `npm install` with such an error got no fix
\* and is about to return, that command has been executed.
C20_InstallsMissingModule ==
    /\ \A n \in DOMAIN stack :
          (/\ stack[n].kind = "handler" /\ stack[n].name = "npm" /\ n < Len(stack)
           /\ stack[n + 1].kind = "resolve"
           /\ MissingModuleOnly(stack[n + 1].errorMessage))
          => LET command == InstallModule(stack[n + 1].errorMessage)
             IN  \/ stack[n].todo = <<command>>
                 \/ /\ stack[n].todo = <<>>
                    /\ \E k \in DOMAIN Executed : Executed[k].command = command
    /\ (/\ TopIs("resolve") /\ Top.phase = "return" /\ ~exc
        /\ Top.failedCommand = NpmInstall
        /\ MissingModuleOnly(Top.errorMessage)
        /\ Top.solution.blocks = <<>>)
       => \E k \in DOMAIN Executed : Executed[k].command = InstallModule(Top.errorMessage)

\* C20 witness: `npm install` failed with `Cannot find module 'left-pad'`,
\* no fix was applied, and `npm install left-pad --save` has been executed.
C20_Witness ==
    /\ TopIs("resolve") /\ Top.phase = "return" /\ ~exc
    /\ Top.failedCommand = NpmInstall
    /\ Top.errorMessage.text.module = <<"left-pad">>
    /\ MissingModuleOnly(Top.errorMessage)
    /\ Top.solution.blocks = <<>> /\ ~Top.providerError
    /\ \E k \in DOMAIN Executed :
          Executed[k].command = <<"npm", "install", "left-pad", "--save">>

\* The response has the one-line plaintext artifact
\* `PRIVATE_KEY=[YourPrivateKeyArray]` first among its file artifacts, and
\* its text names no file
EnvArtifactCase ==
    /\ filenameMatchesOf(aiResponse) = <<>>
    /\ fileBlocksOf(aiResponse.blocks) # <<>>
    /\ fileBlocksOf(aiResponse.blocks)[1] =
          [language |-> "plaintext", code |-> << <<"PRIVATE_KEY=", "[YourPrivateKeyArray]">> >>]
    /\ placeholderValues["private_key"] = "abc123"

LinesOver(tokens) == UNION {[1..n -> tokens] : n \in 1..MaxLineTokens}
RECURSIVE TextsWithin(_, _, _)
\* Texts of at most `lines` lines that hold at most `budget` tokens in all
TextsWithin(tokens, lines, budget) ==
    IF lines = 0 \/ budget = 0 THEN {<<>>}
    ELSE {<<>>} \cup
         UNION { {<<l>> \o t : t \in TextsWithin(tokens, lines - 1, budget - Len(l))} :
                     l \in {x \in LinesOver(tokens) : Len(x) <= budget} }
TextsOver(tokens) == TextsWithin(tokens, MaxTextLines, MaxLineTokens + 1)

\* Texts and bindings given to replacePlaceholders.  A bound value may be a
\* placeholder of another kind or a `KEY=` fragment.
SubstTokens == {"[YourPrivateKey]", "[YourAPIKey]", "PRIVATE_KEY=", "API_KEY=", "x"}
SubstBindings ==
    {[k \in Kinds |-> CASE k = "private_key" -> pk [] k = "api_key" -> ak [] OTHER -> NoValue] :
        pk \in {NoValue, "abc123", "[YourAPIKey]", "API_KEY="},
        ak \in {NoValue, "key1", "[YourPrivateKey]", "PRIVATE_KEY="}}
SubstCalls ==
    {[op |-> "replacePlaceholders", code |-> t, values |-> b, results |-> <<>>] :
        t \in TextsOver(SubstTokens), b \in SubstBindings}

\* replacePlaceholders applied to the text, then to its own result
Substitute ==
    /\ call.op = "replacePlaceholders" /\ Len(call.results) < 2
    /\ call' = [call EXCEPT !.results =
                   Append(@, replacePlaceholders(IF @ = <<>> THEN call.code ELSE Last(@),
                                                 call.values))]
    /\ UNCHANGED <<phase, stack, exc, ctx, aiResponse, placeholderValues, executionStats,
                   files, prompts, requests, writes, applied, failures, fsFaults, summaries>>

\* Contents of the secrets store (<<>>: the file is absent or empty) and
\* the bindings persisted into it.
StoreLines ==
    { <<"PRIVATE_KEY=", "old">>, <<"PRIVATE_KEY=", "older">>, <<"API_KEY=", "key1">>,
      <<"FOO=", "x">>, <<"#", "secrets">>, <<>> }
StoreContents == UNION {[1..n -> StoreLines] : n \in 0..(MaxTextLines + 1)}
PersistCalls ==
    {[op |-> "updateEnvFile", content |-> c, var |-> EnvVar(k), value |-> v, results |-> <<>>] :
        c \in StoreContents, k \in {"private_key", "api_key"}, v \in {"abc123", "old"}}

\* updateEnvFile(key, value) applied to the store
Persist ==
    /\ call.op = "updateEnvFile" /\ call.results = <<>>
    /\ call' = [call EXCEPT !.results = <<updateEnvFile(call.content, call.var, call.value)>>]
    /\ UNCHANGED <<phase, stack, exc, ctx, aiResponse, placeholderValues, executionStats,
                   files, prompts, requests, writes, applied, failures, fsFaults, summaries>>

\* Markdown texts: up to MaxSegments pieces, each an opening fence with a
\* tag or with an unsupported tag, a bare fence, a word or white space.
Segments ==
    { <<Fence, "js", NL>>, <<Fence, "JS", NL>>, <<Fence, "c++", NL>>,
      <<Fence>>, <<"x">>, <<NL>>, <<Blank>> }
RECURSIVE Concat(_)
Concat(ss) == IF ss = <<>> THEN <<>> ELSE Head(ss) \o Concat(Tail(ss))
Markdowns == {Concat(ss) : ss \in UNION {[1..n -> Segments] : n \in 0..MaxSegments}}
ParseCalls == {[op |-> "extractCodeBlocks", markdown |-> t, results |-> <<>>] : t \in Markdowns}

RECURSIVE Serialize(_)
\* The artifacts written back as fenced blocks: opening fence with the
\* language tag, line break, content, line break, closing fence.
Serialize(blocks) ==
    IF blocks = <<>> THEN <<>>
    ELSE LET b == Head(blocks)
         IN  <<Fence>> \o (IF b.language = "" THEN <<>> ELSE <<b.language>>) \o <<NL>>
             \o b.code \o <<NL, Fence, NL>> \o Serialize(Tail(blocks))

\* extractCodeBlocks applied to the text, then to its serialized result
Parse ==
    /\ call.op = "extractCodeBlocks" /\ Len(call.results) < 2
    /\ call' = [call EXCEPT !.results =
                   Append(@, extractCodeBlocks(IF @ = <<>> THEN call.markdown
                                               ELSE Serialize(Last(@))))]
    /\ UNCHANGED <<phase, stack, exc, ctx, aiResponse, placeholderValues, executionStats,
                   files, prompts, requests, writes, applied, failures, fsFaults, summaries>>

\* The kinds each path gives to an artifact.  The main pass filters the
\* artifacts twice (fileBlocks, commandBlocks), the fix path branches on the
\* language tag, the interactive path filters in executeCommands and in
\* createFiles.
KindsInMainPass(block) ==
    (IF IsCommandBlock(block) THEN {"Command"} ELSE {}) \cup
    (IF ~IsCommandBlock(block) THEN {"FileContent"} ELSE {})
KindsInFixPath(block) ==
    IF block.language \in ShellTags THEN {"Command"} ELSE {"FileContent"}
KindsInInteractivePath(block) ==
    (IF block.language \in {"bash", "shell", "sh", ""} THEN {"Command"} ELSE {}) \cup
    (IF block.language \notin {"bash", "shell", "sh"} THEN {"FileContent"} ELSE {})

ClassifyCalls ==
    {[op |-> "classify", block |-> [language |-> l, code |-> c], results |-> <<>>] :
        l \in {"bash", "shell", "sh", "", "js", "plaintext"},
        c \in TextsOver({"npm", "x"}) \ {<<>>}}

\* The three paths classify the artifact
Classify ==
    /\ call.op = "classify" /\ call.results = <<>>
    /\ call' = [call EXCEPT !.results = << [main |-> KindsInMainPass(call.block),
                                            fix |-> KindsInFixPath(call.block),
                                            interactive |-> KindsInInteractivePath(call.block)] >>]
    /\ UNCHANGED <<phase, stack, exc, ctx, aiResponse, placeholderValues, executionStats,
                   files, prompts, requests, writes, applied, failures, fsFaults, summaries>>

\* Projects handleEslintErrors may find in the working directory: none or
\* one lint configuration convention, with or without a package.json.
ProjectDir == <<"home", "proj">>
PlainPackage == << <<"name">> >>
LintProjects ==
    { <<>>,
      (Append(ProjectDir, "package.json") :> PlainPackage),
      (Append(ProjectDir, "package.json") :> Append(PlainPackage, <<"eslintConfig">>)),
      (Append(ProjectDir, ".eslintrc.json") :> << <<"env">> >>),
      (Append(ProjectDir, ".eslintrc.json") :> << <<"env">> >>)
          @@ (Append(ProjectDir, "package.json") :> PlainPackage),
      (Append(ProjectDir, "eslint.config.js") :> << <<"export", "default">> >>),
      (Append(ProjectDir, "eslint.config.js") :> << <<"export", "default">> >>)
          @@ (Append(ProjectDir, "package.json") :> PlainPackage) }
\* Error texts of the linter: no eslint.config found (ESLint 9), a legacy
\* rc file problem, another lint failure.
LintMessages ==
    { Message(<<>>, EslintText),
      Message(<<>>, [sig |-> {"Error:", "ESLint", "eslintrc"}, module |-> <<>>, path |-> <<>>]),
      Message(<<>>, [sig |-> {"Error:", "ESLint"}, module |-> <<>>, path |-> <<>>]) }
LintCalls == {[op |-> "handleEslintErrors", project |-> fs, results |-> <<>>] : fs \in LintProjects}

\* handleEslintErrors(errorMessage) up to its call of executeCommand, run
\* once and once more in the directory it left
FixLint ==
    /\ call.op = "handleEslintErrors" /\ Len(call.results) < 2
    /\ \E msg \in LintMessages :
          /\ files' = WriteAll(EslintWrites(msg), files)
          /\ call' = [call EXCEPT !.results = Append(@, msg)]
    /\ UNCHANGED <<phase, stack, exc, ctx, aiResponse, placeholderValues, executionStats,
                   prompts, requests, writes, applied, failures, fsFaults, summaries>>

\* Error messages given to handleCommonErrors: every combination of the
\* signatures its tests and those of handleNpmErrors look for.
Signatures ==
    {"ESLint", "eslint.config", "npm ERR!", "EACCES", "permission denied", "ENOENT",
     "package.json", "Cannot find module"}
DispatchCalls ==
    {[op |-> "handleCommonErrors", failedCommand |-> c,
      errorMessage |-> Message(<<>>, [sig |-> sg, module |-> m, path |-> <<>>]),
      results |-> <<>>] :
        c \in {NpmInstall, NpmTest}, sg \in SUBSET Signatures, m \in {<<>>, <<"left-pad">>}}

\* handleCommonErrors(failedCommand, errorMessage): the handler it calls
\* and, for handleNpmErrors, the branch taken and its commands
Dispatch ==
    /\ call.op = "handleCommonErrors" /\ call.results = <<>>
    /\ LET handler == CommonHandler(call.failedCommand, call.errorMessage)
       IN  call' = [call EXCEPT !.results =
                       << [handler |-> handler,
                           branch |-> IF handler = "npm" THEN NpmBranch(call.errorMessage)
                                      ELSE "none",
                           commands |-> IF handler = "npm"
                                        THEN NpmHandlerCommands(call.errorMessage)
                                        ELSE <<>>] >>]
    /\ UNCHANGED <<phase, stack, exc, ctx, aiResponse, placeholderValues, executionStats,
                   files, prompts, requests, writes, applied, failures, fsFaults, summaries>>

\* Responses given to the filename inference of autoProcessCodeBlocks: the
\* filename mentions of the prose in the order of the text, each with the
\* phrasing that matched it (`file named X`: filenameMatcher, `Create a X
\* file`: createMatcher), and the artifacts.
MentionsOf(mentions, by) ==
    LET hits == SelectSeq(mentions, LAMBDA m : m.by = by)
    IN  [n \in DOMAIN hits |-> hits[n].name]
InferCalls ==
    {[op |-> "inferFilenames", mentions |-> ms, blocks |-> bs, results |-> <<>>] :
        ms \in UNION {[1..n -> [by : {"named", "create"}, name : {<<"a.js">>, <<"b.js">>}]] :
                          n \in 0..MaxTextLines},
        bs \in UNION {[1..n -> {[language |-> l, code |-> << <<"x">> >>] :
                                    l \in {"js", "plaintext", "bash"}}] :
                          n \in 1..(MaxTextLines + 1)}}

\* The filenames autoProcessCodeBlocks gives to the file blocks of the response
Infer ==
    /\ call.op = "inferFilenames" /\ call.results = <<>>
    /\ LET response == [named |-> MentionsOf(call.mentions, "named"),
                        created |-> MentionsOf(call.mentions, "create")]
           fileBlocks == fileBlocksOf(call.blocks)
       IN  call' = [call EXCEPT !.results =
                       << [i \in DOMAIN fileBlocks |->
                              InferFilename(response, fileBlocks[i], i)] >>]
    /\ UNCHANGED <<phase, stack, exc, ctx, aiResponse, placeholderValues, executionStats,
                   files, prompts, requests, writes, applied, failures, fsFaults, summaries>>

\* Command blocks given to the splitting of autoProcessCodeBlocks and of
\* attemptErrorResolution: lines that may end in a continuation backslash.
SplitCalls ==
    {[op |-> "commandLines", code |-> c, results |-> <<>>] :
        c \in TextsOver({"npm", "x", "\\"}) \ {<<>>}}

\* block.code split into the commands handed to executeCommand
Split ==
    /\ call.op = "commandLines" /\ call.results = <<>>
    /\ call' = [call EXCEPT !.results = <<commandLinesOf(call.code)>>]
    /\ UNCHANGED <<phase, stack, exc, ctx, aiResponse, placeholderValues, executionStats,
                   files, prompts, requests, writes, applied, failures, fsFaults, summaries>>

\* Responses with one plaintext artifact made of `VAR=<placeholder>` lines
\* and comments, and with placeholders in the prose around it.
EnvArtifactLines ==
    UNION {{<<EnvVar(k), t>> : t \in BracketTokens(k)} : k \in Kinds}
        \cup {<<"#", "secrets">>}
EnvCalls ==
    {[op |-> "envArtifact",
      response |-> [named |-> <<>>, created |-> <<>>, prose |-> pr,
                    blocks |-> << [language |-> "plaintext", code |-> c] >>],
      results |-> <<>>] :
        pr \in SUBSET {"[YourAPIKey]", "[YourWalletAddress]"},
        c \in UNION {[1..n -> EnvArtifactLines] : n \in 1..MaxTextLines}}

RECURSIVE DetectAll(_, _, _, _)
\* The loop of detectAndPromptForPlaceholders from pattern p on, prompts
\* answered and writes succeeding: the bindings and the content of .env
DetectAll(tokens, p, values, store) ==
    IF p > Len(patterns) THEN [values |-> values, store |-> store]
    ELSE IF patterns[p].tokens \cap tokens # {} /\ NeedsPrompt(patterns[p], values)
    THEN LET v == CHOOSE x \in PromptValues(patterns[p].type) : TRUE
         IN  DetectAll(tokens, p + 1, [values EXCEPT ![patterns[p].type] = v],
                       updateEnvFile(store, EnvVar(patterns[p].type), v))
    ELSE DetectAll(tokens, p + 1, values, store)

\* The main pass on such a response outside a project: the placeholders
\* are detected and their values persisted, then the artifact is written.
Materialize ==
    /\ call.op = "envArtifact" /\ Len(call.results) < 2
    /\ IF call.results = <<>>
       THEN LET d == DetectAll(ScannedTokensOf(call.response), 1, placeholderValues,
                               ReadFile(EnvPath))
            IN  /\ placeholderValues' = d.values
                /\ files' = IF d.store = <<>> THEN files ELSE (EnvPath :> d.store) @@ files
                /\ call' = [call EXCEPT !.results = <<"detected">>]
                /\ UNCHANGED <<executionStats, writes>>
       ELSE LET block == fileBlocksOf(call.response.blocks)[1]
                filename == ContainFilename(InferFilename(call.response, block, 1),
                                            ctx.root, ctx.cwd)
                replaced == replacePlaceholders(block.code, placeholderValues)
                content == IF EndsWithEnv(filename) THEN EnvFormatAuto(replaced) ELSE replaced
                r == createFile(filename, content, "none")
            IN  /\ executionStats' = r.stats
                /\ files' = r.files
                /\ writes' = r.writes
                /\ call' = [call EXCEPT !.results = Append(@, filename)]
                /\ UNCHANGED placeholderValues
    /\ UNCHANGED <<phase, stack, exc, ctx, aiResponse, prompts, requests, applied,
                   failures, fsFaults, summaries>>

FunctionInit ==
    /\ phase = "start"
    /\ stack = <<>>
    /\ exc = FALSE
    /\ ctx = [root |-> <<>>, cwd |-> ProjectDir]
    /\ aiResponse = NoResponse
    /\ placeholderValues = NoBindings
    /\ executionStats = ResetStats
    /\ \/ call \in SubstCalls
       \/ call \in PersistCalls
       \/ call \in ParseCalls
       \/ call \in ClassifyCalls
       \/ call \in LintCalls
       \/ call \in DispatchCalls
       \/ call \in EnvCalls
       \/ call \in SplitCalls
       \/ call \in InferCalls
    /\ files = IF call.op = "handleEslintErrors" THEN call.project ELSE <<>>
    /\ prompts = <<>>
    /\ requests = <<>>
    /\ writes = <<>>
    /\ applied = <<>>
    /\ failures = 0
    /\ fsFaults = 0
    /\ summaries = 0

FunctionNext ==
    \/ Substitute
    \/ Persist
    \/ Parse
    \/ Classify
    \/ FixLint
    \/ Dispatch
    \/ Materialize
    \/ Split
    \/ Infer

FunctionSpec == FunctionInit /\ [][FunctionNext]_vars

\* C22: replacePlaceholders applied to its own result, with the same
\* bindings, returns that result.
C22_SubstituteIdempotent ==
    (call.op = "replacePlaceholders" /\ Len(call.results) = 2)
    => call.results[2] = call.results[1]

\* The lines of a store that set variable var, and the other non-blank lines
LinesFor(content, var) == {n \in DOMAIN content : content[n] # <<>> /\ Head(content[n]) = var}
OtherLines(content, var) ==
    SelectSeq(content, LAMBDA line : line # <<>> /\ Head(line) # var)

\* C23: after updateEnvFile(K, V) the store has exactly one line for K,
\* that line is `K=V`, the lines of the other variables are the ones it
\* had, and a store with at most one line per variable still has at most
\* one line per variable.
C23_PersistIsUpsert ==
    (call.op = "updateEnvFile" /\ call.results # <<>>) =>
        LET out == call.results[1]
        IN  /\ Cardinality(LinesFor(out, call.var)) = 1
            /\ \A n \in LinesFor(out, call.var) : out[n] = <<call.var, call.value>>
            /\ OtherLines(out, call.var) = OtherLines(call.content, call.var)
            /\ (\A w \in KeyEqTokens : Cardinality(LinesFor(call.content, w)) <= 1)
               => (\A w \in KeyEqTokens : Cardinality(LinesFor(out, w)) <= 1)

FencesOf(text) == {i \in DOMAIN text : text[i] = Fence}
OpensWithTag(text, i) ==
    /\ i + 2 <= Len(text)
    /\ text[i] = Fence /\ text[i + 1] \in TagWords /\ text[i + 2] = NL

\* The text is an opening fence that is never closed, followed by one
\* complete block with a language tag whose closing fence ends the text.
UnterminatedThenBlock(text) ==
    /\ Cardinality(FencesOf(text)) = 3
    /\ text[1] = Fence /\ text[Len(text)] = Fence
    /\ \A i \in FencesOf(text) : i < Len(text) => OpensWithTag(text, i)

\* The artifacts of the complete block of such a text
FollowingBlock(text) ==
    LET i == CHOOSE j \in FencesOf(text) : 1 < j /\ j < Len(text)
        code == trim(SubSeq(text, i + 3, Len(text) - 1))
    IN  IF code = <<>> THEN <<>>
        ELSE << [language |-> Lower(text[i + 1]), code |-> code] >>

\* C25: every artifact has a non-blank content, and in a text made of an
\* opening fence without a closing fence followed by a complete fenced
\* block the artifacts are those of the complete block alone.
C25_OnlyTerminatedBlocks ==
    (call.op = "extractCodeBlocks" /\ call.results # <<>>) =>
        /\ \A n \in DOMAIN call.results[1] : trim(call.results[1][n].code) # <<>>
        /\ (Len(call.results) = 1 /\ UnterminatedThenBlock(call.markdown))
           => call.results[1] = FollowingBlock(call.markdown)

\* C26: every path gives an artifact exactly one kind, the same in the
\* main pass, the fix path and the interactive path: Command for the tags
\* bash, shell, sh and the empty tag, FileContent otherwise.
C26_OneKindEverywhere ==
    (call.op = "classify" /\ call.results # <<>>) =>
        LET kinds == call.results[1]
            expected == IF call.block.language \in {"bash", "shell", "sh", ""}
                        THEN {"Command"} ELSE {"FileContent"}
        IN  /\ kinds.main = expected
            /\ kinds.fix = expected
            /\ kinds.interactive = expected

\* C27: from the reset to the summary a step decreases no counter, leaves
\* every file list a prefix of the new one, keeps every command record in
\* its place with its command, and changes a record only by setting its
\* success flag.
C27_StatsAdditive ==
    [][phase = "running" =>
         /\ executionStats'.successful >= executionStats.successful
         /\ executionStats'.failed >= executionStats.failed
         /\ executionStats'.detected >= executionStats.detected
         /\ executionStats'.resolved >= executionStats.resolved
         /\ executionStats'.unresolved >= executionStats.unresolved
         /\ IsPrefix(executionStats.created, executionStats'.created)
         /\ IsPrefix(executionStats.updated, executionStats'.updated)
         /\ IsPrefix(executionStats.failedFiles, executionStats'.failedFiles)
         /\ Len(executionStats'.executed) >= Len(Executed)
         /\ \A n \in DOMAIN Executed :
               /\ executionStats'.executed[n].command = Executed[n].command
               /\ Executed[n].success => executionStats'.executed[n].success]_vars

\* C27 witness: a command has failed, and a later command has completed
\* and had its success flag set.
C27_Witness ==
    /\ phase = "running"
    /\ executionStats.failed >= 1
    /\ \E m, n \in DOMAIN Executed : m < n /\ ~Executed[m].success /\ Executed[n].success

\* The lint configuration conventions present in the working directory
LintConventions ==
    (IF Exists("eslint.config.js") THEN {"flat"} ELSE {}) \cup
    (IF Exists(".eslintrc.js") \/ Exists(".eslintrc.json") \/ Exists(".eslintrc")
     THEN {"legacy"} ELSE {}) \cup
    (IF Exists("package.json")
        /\ \E n \in DOMAIN files[InCwd("package.json")] :
               files[InCwd("package.json")][n] = <<"eslintConfig">>
     THEN {"package"} ELSE {})

\* C28: after handleEslintErrors has run, once or twice, in a project that
\* had at most one lint configuration convention, at most one convention
\* is present.
C28_OneLintConvention ==
    (call.op = "handleEslintErrors" /\ call.results # <<>>)
    => Cardinality(LintConventions) <= 1

\* The fallback chain as an ordered list of (predicate, handler) pairs, and
\* the branches of the dependency-manager handler as such a list
FallbackChain(failedCommand, msg) ==
    << [applies |-> Has(msg, "ESLint") /\ Has(msg, "eslint.config"), handler |-> "eslint"],
       [applies |-> Has(msg, "npm ERR!") \/ IncludesLine(failedCommand, NpmInstall),
        handler |-> "npm"],
       [applies |-> Has(msg, "ENOENT") \/ Has(msg, "permission denied"), handler |-> "file"],
       [applies |-> TRUE, handler |-> "none"] >>
NpmChain(msg) ==
    << [applies |-> Has(msg, "EACCES") \/ Has(msg, "permission denied"),
        handler |-> "permission"],
       [applies |-> Has(msg, "ENOENT") /\ Has(msg, "package.json"), handler |-> "manifest"],
       [applies |-> Has(msg, "Cannot find module"), handler |-> "module"],
       [applies |-> TRUE, handler |-> "general"] >>
\* the handler of the first pair of the list whose predicate holds
FirstApplicable(chain) ==
    chain[CHOOSE n \in DOMAIN chain :
              chain[n].applies /\ \A m \in 1..(n - 1) : ~chain[m].applies].handler

FileOutcomes(stats) == Len(stats.created) + Len(stats.updated) + Len(stats.failedFiles)

\* The next step is a call of createFile: by the file loop of the main
\* pass, or by the fix loop at a file block
CallsCreateFile ==
    /\ ~exc
    /\ \/ TopIs("auto") /\ Top.phase = "files"
       \/ /\ TopIs("resolve") /\ Top.phase = "apply"
          /\ Top.solution.blocks[Top.b].language \notin ShellTags

\* C30: a call of createFile appends the path to exactly one of the
\* created, updated and failed lists.
C30_OneFileOutcome ==
    [][CallsCreateFile => FileOutcomes(executionStats') = FileOutcomes(executionStats) + 1]_vars

\* C31: a createFile call that writes a path that existed before the write
\* appends it to the updated list, one that writes a new path appends it to
\* the created list.
C31_StatusTellsWhatHappened ==
    [][(CallsCreateFile /\ Len(writes') = Len(writes) + 1)
       => IF writes'[Len(writes')].loc \in DOMAIN files
          THEN /\ Len(executionStats'.updated) = Len(executionStats.updated) + 1
               /\ executionStats'.created = executionStats.created
          ELSE /\ Len(executionStats'.created) = Len(executionStats.created) + 1
               /\ executionStats'.updated = executionStats.updated]_vars

\* C32: the i-th file artifact gets the i-th filename mention of the prose
\* in the order of the text, whichever phrasing the mention uses, and the
\* fallback name of its language and ordinal when fewer mentions exist.
C32_MentionsInTextOrder ==
    (call.op = "inferFilenames" /\ call.results # <<>>)
    => LET fileBlocks == fileBlocksOf(call.blocks)
       IN  \A i \in DOMAIN fileBlocks :
              call.results[1][i] = IF i <= Len(call.mentions)
                                   THEN call.mentions[i].name
                                   ELSE FallbackName(fileBlocks[i], i)

\* The process runs in a subdirectory of the known project root
InSubdirectory == ctx.root # <<>> /\ InsideDir(ctx.root, ctx.cwd)

\* C33: in a subdirectory of the project root, a file artifact with the
\* relative filename f (no `..` in it) is written at <cwd>/f.
C33_WrittenInSubdirectory ==
    [][(/\ TopIs("auto") /\ Top.phase = "files" /\ ~exc
        /\ InSubdirectory
        /\ Len(writes') = Len(writes) + 1)
       => LET f == InferFilename(aiResponse, fileBlocksOf(aiResponse.blocks)[Top.i], Top.i)
          IN  (~IsAbsolute(f) /\ ".." \notin SeqToSet(f))
              => writes'[Len(writes')].loc = ctx.cwd \o f]_vars

\* The command blocks the main pass has gone through completely
PassedBlocks(f) ==
    IF f.phase = "cmds" THEN 1..(f.i - 1)
    ELSE IF f.phase \in {"batch", "end"} THEN DOMAIN commandBlocksOf(aiResponse.blocks)
    ELSE {}

\* C34: of a command block the main pass has gone through, every command
\* line that holds neither `sudo ` nor `rm -rf` (and is no unfilled example)
\* was passed to executeCommand, whatever the other lines of the block hold.
C34_GatePerCommand ==
    \A n \in DOMAIN stack :
        stack[n].kind = "auto" =>
            \A j \in PassedBlocks(stack[n]) :
                LET lines == commandLinesOf(commandBlocksOf(aiResponse.blocks)[j].code)
                IN  \A k \in DOMAIN lines :
                        (/\ ~UnsafeLine(lines[k])
                         /\ ~LooksLikeExample(replaceLine(lines[k], placeholderValues)))
                        => replaceLine(lines[k], placeholderValues) \in stack[n].executedCommands

RECURSIVE LogicalCommands(_, _)
\* The logical commands of a block: a line that ends in a backslash is
\* continued by the next line; pending holds the part read so far.
LogicalCommands(code, pending) ==
    IF code = <<>> THEN (IF pending = <<>> THEN <<>> ELSE <<pending>>)
    ELSE LET line == Head(code)
         IN  IF line # <<>> /\ Last(line) = "\\"
             THEN LogicalCommands(Tail(code), pending \o SubSeq(line, 1, Len(line) - 1))
             ELSE IF pending = <<>> /\ (line = <<>> \/ IsComment(line))
             THEN LogicalCommands(Tail(code), <<>>)
             ELSE <<pending \o line>> \o LogicalCommands(Tail(code), <<>>)

\* C35: the commands of a block are its logical commands: a command that
\* spans lines joined by trailing backslashes is one command, its
\* continuation lines are no commands of their own, and no command ends in
\* a backslash (blocks whose lines start with a word).
C35_ContinuationsJoined ==
    (/\ call.op = "commandLines" /\ call.results # <<>>
     /\ \A n \in DOMAIN call.code : Head(call.code[n]) # "\\")
    => /\ call.results[1] = LogicalCommands(call.code, <<>>)
       /\ \A n \in DOMAIN call.results[1] :
              call.results[1][n] = <<>> \/ Last(call.results[1][n]) # "\\"

\* executeCommand calls that have not returned yet
CommandsInFlight == {n \in DOMAIN stack : stack[n].kind = "exec"}

\* C36: whenever no command is in flight, successful + failed is the number
\* of ExecutionRecords and successful is the number of records whose
\* success flag is true.
C36_CommandAccounting ==
    CommandsInFlight = {} =>
        /\ executionStats.successful + executionStats.failed = Len(executionStats.executed)
        /\ executionStats.successful =
               Cardinality({n \in DOMAIN executionStats.executed :
                                executionStats.executed[n].success})

\* C36 witness: a session has ended after a command failed, a fallback
\* handler ran its commands and a command succeeded.
C36_Witness ==
    /\ phase = "done" /\ CommandsInFlight = {}
    /\ executionStats.failed > 0 /\ executionStats.successful > 0
    /\ \E n \in DOMAIN executionStats.executed :
          executionStats.executed[n].command = EslintInstall

\* The environment-file artifact of the response has been written
EnvArtifactWritten ==
    /\ call.op = "envArtifact" /\ Len(call.results) = 2
    /\ call.results[2] = <<".env">>

\* C37: once the artifact is written, .env still holds the line `VAR=v` of
\* every variable bound in this session.
C37_BindingsStayPersisted ==
    EnvArtifactWritten =>
        \A k \in Kinds :
            placeholderValues[k] # NoValue =>
                \E n \in DOMAIN files[EnvPath] :
                    files[EnvPath][n] = <<EnvVar(k), placeholderValues[k]>>

\* C40: every line `VAR_k=<placeholder of k>` of the environment-file
\* artifact is written as exactly `VAR_k=v`, v the value bound to k.
C40_EnvValuesPreserved ==
    EnvArtifactWritten =>
        LET code == call.response.blocks[1].code
        IN  \A n \in DOMAIN code : \A k \in Kinds :
                (/\ Len(code[n]) = 2 /\ code[n][1] = EnvVar(k)
                 /\ code[n][2] \in BracketTokens(k))
                => files[EnvPath][n] = <<EnvVar(k), placeholderValues[k]>>

\* C38: two distinct file artifacts of one response never get the same
\* filename, so neither is overwritten by the other.
C38_DistinctArtifactsDistinctPaths ==
    (call.op = "inferFilenames" /\ call.results # <<>>)
    => LET fileBlocks == fileBlocksOf(call.blocks)
       IN  \A i, j \in DOMAIN fileBlocks :
              (i # j /\ fileBlocks[i] # fileBlocks[j])
              => call.results[1][i] # call.results[1][j]

\* C39: the commands of the main pass that failed went through the Error
\* Resolution Loop when they failed; at the end of the pass they are not
\* sent to it again and errors.detected is not raised again.
C39_FailureHandledOnce ==
    [][(TopIs("auto") /\ Top.phase = "batch" /\ ~exc)
       => /\ executionStats'.detected = executionStats.detected
          /\ Len(stack') <= Len(stack)]_vars

====
